---- MODULE Spec2Model ----
(***************************************************************************)
(* Turn-orchestration pipeline of the ThinkAI conversational client:       *)
(*   - ThinkAIChat: conversation history, curation, sendMessage /          *)
(*     sendMessageStream (packages/core/src/core/thinkAIChat.ts)           *)
(*   - ThinkAIClient.sendMessageStreamToThinkAI: streamed transport with   *)
(*     fallback (packages/core/src/core/thinkAIClient.ts)                  *)
(*   - AgenticThinkAIClient.sendMessageStream / ThinkAIClient              *)
(*     .sendMessageStream: one turn (agenticThinkAIClient.ts)              *)
(* Seven specifications share the module: SpecCurate, SpecChat, SpecStore, *)
(* SpecStream, SpecTurn, SpecOwner and SpecClient.  A specification leaves *)
(* the variables of the others parked at their initial value.              *)
(* SpecCurateFair and SpecTurnFair add weak fairness for termination.      *)
(***************************************************************************)
EXTENDS Integers, Sequences, FiniteSets, TLC

\* ---------------------------------------------------------------- bounds
\* longest history handed to extractCuratedHistory
MaxLen == 4
\* ThinkAIChat: overlapping sendMessage / sendMessageStream calls
NumCalls == 2
\* ThinkAIChat: longest stored history
MaxHist == 4
\* ThinkAIChat: most fragments of one streamed reply
MaxChunks == 2
\* transport: most reads the response body of /chat/stream arrives in
MaxReads == 2
\* turn: most tool calls of one plan
MaxPlan == 2
\* ownership: most turn objects, most arrays ever allocated
MaxObjects == 3
MaxArrays == 2
\* client: attempts of retryWithBackoff, requests started, chats created
MaxAttempts == 2
MaxRequests == 3
MaxChats == 2

\* ------------------------------------------------------------ data model
\* A text is a sequence of characters, so that concatenation and trimming
\* are computed.  A part is {text: t}, the empty object {} or a structured
\* part without text.
TextPart(t) == [kind |-> "text", text |-> t]
EmptyText == TextPart(<<>>)
EmptyObject == [kind |-> "object", text |-> <<>>]

Content(role, parts) == [role |-> role, parts |-> parts]

\* turns a caller can hand to the store (addHistory / setHistory / constructor)
TurnPool ==
  { Content("user", <<TextPart(<<"a">>)>>), Content("user", <<EmptyText>>),
    Content("model", <<TextPart(<<"b">>)>>), Content("model", <<EmptyText>>),
    Content("model", <<>>),
    Content("model", <<TextPart(<<"b">>), EmptyObject>>),
    Content("system", <<TextPart(<<"a">>)>>) }

Histories == UNION { [1..n -> TurnPool] : n \in 0..MaxLen }

\* curatedHistory.pop()
Pop(s) == IF Len(s) = 0 THEN s ELSE SubSeq(s, 1, Len(s) - 1)

\* ------------------------------------------------------------- variables
VARIABLES
  input,                \* SpecCurate: the history curation was first called on
  comprehensiveHistory, \* argument of the running extractCuratedHistory call
  i,                    \* its loop index (1-based)
  curatedHistory,       \* its output so far
  pass,                 \* 1: curate(h) is running, 2: curate(curate(h))
  firstResult,          \* curate(h), once pass 1 has returned
  cpc,                  \* "loop" | "done"
  history,              \* SpecChat: ThinkAIChat.history
  sendPromise,          \* ThinkAIChat.sendPromise: "resolved" | "pending"
  calls,                \* the sendMessage / sendMessageStream calls
  thrown,               \* error thrown by the last store operation
  gpc,                  \* SpecStream: position of sendMessageStreamToThinkAI
  reads,                \* reads of the response body not yet delivered
  lines,                \* lines of the current read not yet processed
  after,                \* where the generator goes on after its yield
  fragments,            \* the fragments yielded so far
  fb,                   \* the non-streaming fallback request
  seen,                 \* payloads of the `data: ` lines processed so far
  body,                 \* the response body the service answers with
  turn,                 \* SpecTurn: the running sendMessageStream call
  aborted,              \* signal.aborted
  events,               \* the events sendMessageStream has yielded
  objs,                 \* SpecOwner: the turn objects, by identity
  arrays,               \* the arrays, by identity: sequences of identities
  stored,               \* ThinkAIChat.history: identity of the stored array
  held,                 \* the references the caller holds
  client,               \* SpecClient: the ThinkAIClient and its running request
  requests              \* the requests that reached the service, in order

curateVars == <<input, comprehensiveHistory, i, curatedHistory, pass,
                firstResult, cpc>>
chatVars == <<history, sendPromise, calls, thrown>>
streamVars == <<gpc, reads, lines, after, fragments, fb, seen, body>>

turnVars == <<turn, aborted, events>>

heapVars == <<objs, arrays, stored, held>>

clientVars == <<client, requests>>

vars == <<curateVars, chatVars, streamVars, turnVars, heapVars, clientVars>>

\* ------------------------------------------------------ ThinkAIChat pure
isValidContent_NoTextCheck(content) ==
  /\ Len(content.parts) # 0
  /\ \A k \in 1..Len(content.parts) : content.parts[k] # EmptyObject

isValidContent(content) ==
  /\ Len(content.parts) # 0
  /\ \A k \in 1..Len(content.parts) :
        /\ content.parts[k] # EmptyObject
        /\ content.parts[k] # EmptyText

\* index after the maximal run of model turns that starts at k
RECURSIVE RunEnd(_, _)
RunEnd(h, k) ==
  IF k <= Len(h) /\ h[k].role = "model" THEN RunEnd(h, k + 1) ELSE k

\* the latch isValid of the inner loop
RunIsValid(modelOutput) ==
  \A k \in 1..Len(modelOutput) : isValidContent(modelOutput[k])

AfterModelRun_NoPop(curated, modelOutput) ==
  IF RunIsValid(modelOutput) THEN curated \o modelOutput ELSE curated

AfterModelRun_PopAndPush(curated, modelOutput) ==
  IF RunIsValid(modelOutput) THEN curated \o modelOutput
  ELSE Pop(curated) \o modelOutput

AfterModelRun_KeepValidTurns(curated, modelOutput) ==
  IF RunIsValid(modelOutput) THEN curated \o modelOutput
  ELSE Pop(curated) \o SelectSeq(modelOutput, isValidContent)

\* if (isValid) curatedHistory.push(...modelOutput) else curatedHistory.pop()
AfterModelRun(curated, modelOutput) ==
  IF RunIsValid(modelOutput) THEN curated \o modelOutput ELSE Pop(curated)

\* ------------------------------------------- extractCuratedHistory, steps
CurateStart ==
  /\ input \in Histories
  /\ comprehensiveHistory = input
  /\ i = 1
  /\ curatedHistory = <<>>
  /\ pass = 1
  /\ firstResult = <<>>
  /\ cpc = "loop"

\* one iteration of the outer loop, role === 'user'
ExtractUser ==
  /\ cpc = "loop"
  /\ i <= Len(comprehensiveHistory)
  /\ comprehensiveHistory[i].role = "user"
  /\ curatedHistory' = Append(curatedHistory, comprehensiveHistory[i])
  /\ i' = i + 1
  /\ UNCHANGED <<input, comprehensiveHistory, pass, firstResult, cpc>>
  /\ UNCHANGED <<chatVars, streamVars, turnVars, heapVars, clientVars>>

\* one iteration of the outer loop, else branch: the inner loop consumes the
\* maximal run of model turns (none when the role is neither user nor model)
ExtractModelRun ==
  /\ cpc = "loop"
  /\ i <= Len(comprehensiveHistory)
  /\ comprehensiveHistory[i].role # "user"
  /\ LET j == RunEnd(comprehensiveHistory, i)
         modelOutput == SubSeq(comprehensiveHistory, i, j - 1)
     IN  /\ curatedHistory' = AfterModelRun(curatedHistory, modelOutput)
         /\ i' = j
  /\ UNCHANGED <<input, comprehensiveHistory, pass, firstResult, cpc>>
  /\ UNCHANGED <<chatVars, streamVars, turnVars, heapVars, clientVars>>

\* while (i < length) is over: return curatedHistory.  The result of the
\* first call is curated again.
ExtractReturn ==
  /\ cpc = "loop"
  /\ i > Len(comprehensiveHistory)
  /\ IF pass = 1
     THEN /\ firstResult' = curatedHistory
          /\ comprehensiveHistory' = curatedHistory
          /\ curatedHistory' = <<>>
          /\ i' = 1
          /\ pass' = 2
          /\ cpc' = "loop"
     ELSE /\ cpc' = "done"
          /\ UNCHANGED <<firstResult, comprehensiveHistory, curatedHistory,
                         i, pass>>
  /\ UNCHANGED input
  /\ UNCHANGED <<chatVars, streamVars, turnVars, heapVars, clientVars>>

CurateNext == ExtractUser \/ ExtractModelRun \/ ExtractReturn

\* no curation is running
CurateParked ==
  /\ input = <<>>
  /\ comprehensiveHistory = <<>>
  /\ i = 1
  /\ curatedHistory = <<>>
  /\ pass = 1
  /\ firstResult = <<>>
  /\ cpc = "done"

\* ------------------------------------------------------------ ThinkAIChat
Calls == 1..NumCalls

\* the message of call c, and the reply texts and fragments of the service
Message(c) == <<"m", ToString(c)>>
Replies == { <<"r">>, <<>> }
Chunks == { <<"x">> }

\* histories handed to the constructor and to setHistory
SetArgs ==
  { <<>>,
    << Content("user", <<TextPart(<<"a">>)>>),
       Content("model", <<TextPart(<<"b">>)>>) >>,
    << Content("user", <<TextPart(<<"a">>)>>),
       Content("system", <<TextPart(<<"a">>)>>) >>,
    << Content("system", <<TextPart(<<"a">>)>>) >> }

\* turns handed to addHistory
AddArgs ==
  { Content("user", <<TextPart(<<"a">>)>>),
    Content("user", <<EmptyText>>),
    Content("model", <<TextPart(<<"b">>)>>),
    Content("model", <<EmptyText>>),
    Content("system", <<TextPart(<<"a">>)>>) }

\* before: the history when the call appended its user turn
IdleCall ==
  [pc |-> "idle", kind |-> "none", response |-> <<>>,
   fullResponseText |-> <<>>, before |-> <<>>]

\* calls whose user turn is appended and whose turn is not finished
Unfinished == { c \in Calls : calls[c].pc \in {"net", "logresp", "streaming"} }
\* calls that will still append to the history
Pending == { c \in Calls : calls[c].pc \notin {"idle", "done", "failed"} }

\* createUserContent(params.message)
createUserContent(message) == Content("user", <<TextPart(message)>>)

\* validateHistory does not throw
validateHistory(h) ==
  \A k \in 1..Len(h) : h[k].role = "user" \/ h[k].role = "model"

\* the catch block: drop the last turn if it is a user turn
Rollback(h) ==
  IF Len(h) > 0 /\ h[Len(h)].role = "user" THEN Pop(h) ELSE h

\* recordHistory: push the model outputs that are valid
recordHistory(h, modelOutput) ==
  h \o SelectSeq(modelOutput, isValidContent)

\* no call is running
CallsParked ==
  /\ sendPromise = "resolved"
  /\ calls = [c \in Calls |-> IdleCall]

ChatParked ==
  /\ history = <<>>
  /\ thrown = "none"
  /\ CallsParked

\* constructor: the seeded history passed validateHistory
ChatStart ==
  /\ history \in { h \in SetArgs : validateHistory(h) }
  /\ thrown = "none"
  /\ CallsParked

\* sendMessage / sendMessageStream is called: runs to `await this.sendPromise`
Call(c, kind) ==
  /\ calls[c].pc = "idle"
  /\ Len(history) + 2 * (Cardinality(Pending) + 1) <= MaxHist
  /\ calls' = [calls EXCEPT ![c] = [IdleCall EXCEPT !.pc = "gate", !.kind = kind]]
  /\ UNCHANGED <<history, sendPromise, thrown>>
  /\ UNCHANGED <<curateVars, streamVars, turnVars, heapVars, clientVars>>

\* the awaited sendPromise is settled: userContent is built, the request is
\* logged (await this.logApiRequest)
PassGate(c) ==
  /\ calls[c].pc = "gate"
  /\ sendPromise = "resolved"
  /\ calls' = [calls EXCEPT ![c].pc = "logreq"]
  /\ UNCHANGED <<history, sendPromise, thrown>>
  /\ UNCHANGED <<curateVars, streamVars, turnVars, heapVars, clientVars>>

\* sendMessage: this.history.push(userContent), then the transport call is
\* awaited
SendPush(c) ==
  /\ calls[c].pc = "logreq"
  /\ calls[c].kind = "send"
  /\ history' = Append(history, createUserContent(Message(c)))
  /\ calls' = [calls EXCEPT ![c].pc = "net", ![c].before = history]
  /\ UNCHANGED <<sendPromise, thrown>>
  /\ UNCHANGED <<curateVars, streamVars, turnVars, heapVars, clientVars>>

\* sendMessageToThinkAI resolves; await this.logApiResponse
TransportResolves(c, reply) ==
  /\ calls[c].pc = "net"
  /\ calls' = [calls EXCEPT ![c].pc = "logresp", ![c].response = reply]
  /\ UNCHANGED <<history, sendPromise, thrown>>
  /\ UNCHANGED <<curateVars, streamVars, turnVars, heapVars, clientVars>>

\* the async block pushes the model turn at once; sendPromise is its
\* already settled promise; the response is returned
SendCommit(c) ==
  /\ calls[c].pc = "logresp"
  /\ history' = Append(history,
                       Content("model", <<TextPart(calls[c].response)>>))
  /\ sendPromise' = "resolved"
  /\ calls' = [calls EXCEPT ![c].pc = "done"]
  /\ UNCHANGED thrown
  /\ UNCHANGED <<curateVars, streamVars, turnVars, heapVars, clientVars>>

\* sendMessageToThinkAI rejects: the catch block of sendMessage
TransportRejects(c) ==
  /\ calls[c].pc = "net"
  /\ sendPromise' = "resolved"
  /\ history' = Rollback(history)
  /\ calls' = [calls EXCEPT ![c].pc = "failed"]
  /\ UNCHANGED thrown
  /\ UNCHANGED <<curateVars, streamVars, turnVars, heapVars, clientVars>>

\* sendMessageStream: push, create the generator, replace sendPromise by
\* Promise.resolve().then().catch(), return the generator
StreamPush(c) ==
  /\ calls[c].pc = "logreq"
  /\ calls[c].kind = "stream"
  /\ history' = Append(history, createUserContent(Message(c)))
  /\ sendPromise' = "pending"
  /\ calls' = [calls EXCEPT ![c].pc = "streaming", ![c].before = history]
  /\ UNCHANGED thrown
  /\ UNCHANGED <<curateVars, streamVars, turnVars, heapVars, clientVars>>

\* the microtasks of Promise.resolve().then().catch() have run
SettleSendPromise ==
  /\ sendPromise = "pending"
  /\ sendPromise' = "resolved"
  /\ UNCHANGED <<history, calls, thrown>>
  /\ UNCHANGED <<curateVars, streamVars, turnVars, heapVars, clientVars>>

\* processStreamResponse: one fragment arrives and is yielded
StreamChunk(c, chunk) ==
  /\ calls[c].pc = "streaming"
  /\ Len(calls[c].fullResponseText) < MaxChunks
  /\ calls' = [calls EXCEPT
                 ![c].fullResponseText = calls[c].fullResponseText \o chunk]
  /\ UNCHANGED <<history, sendPromise, thrown>>
  /\ UNCHANGED <<curateVars, streamVars, turnVars, heapVars, clientVars>>

\* processStreamResponse: the stream ends, recordHistory
StreamEnd(c) ==
  /\ calls[c].pc = "streaming"
  /\ history' = recordHistory(history,
        << Content("model", <<TextPart(calls[c].fullResponseText)>>) >>)
  /\ calls' = [calls EXCEPT ![c].pc = "done"]
  /\ UNCHANGED <<sendPromise, thrown>>
  /\ UNCHANGED <<curateVars, streamVars, turnVars, heapVars, clientVars>>

\* processStreamResponse: the stream throws; the error is logged and rethrown
StreamError(c) ==
  /\ calls[c].pc = "streaming"
  /\ calls' = [calls EXCEPT ![c].pc = "failed"]
  /\ UNCHANGED <<history, sendPromise, thrown>>
  /\ UNCHANGED <<curateVars, streamVars, turnVars, heapVars, clientVars>>

\* the caller has received the result of call c
Retire(c) ==
  /\ calls[c].pc \in {"done", "failed"}
  /\ calls' = [calls EXCEPT ![c] = IdleCall]
  /\ UNCHANGED <<history, sendPromise, thrown>>
  /\ UNCHANGED <<curateVars, streamVars, turnVars, heapVars, clientVars>>

ChatNext ==
  \/ \E c \in Calls, kind \in {"send", "stream"} : Call(c, kind)
  \/ \E c \in Calls : PassGate(c)
  \/ \E c \in Calls : SendPush(c)
  \/ \E c \in Calls, reply \in Replies : TransportResolves(c, reply)
  \/ \E c \in Calls : SendCommit(c)
  \/ \E c \in Calls : TransportRejects(c)
  \/ \E c \in Calls : StreamPush(c)
  \/ SettleSendPromise
  \/ \E c \in Calls, chunk \in Chunks : StreamChunk(c, chunk)
  \/ \E c \in Calls : StreamEnd(c)
  \/ \E c \in Calls : StreamError(c)
  \/ \E c \in Calls : Retire(c)

\* ------------------------------------------- ThinkAIChat store operations
addHistory(content) ==
  /\ Len(history) < MaxHist
  /\ history' = Append(history, content)
  /\ thrown' = "none"
  /\ UNCHANGED <<sendPromise, calls>>
  /\ UNCHANGED <<curateVars, streamVars, turnVars, heapVars, clientVars>>

setHistory_AssignFirst(h) ==
  /\ history' = h
  /\ thrown' = IF validateHistory(h) THEN "none" ELSE "role"
  /\ UNCHANGED <<sendPromise, calls>>
  /\ UNCHANGED <<curateVars, streamVars, turnVars, heapVars, clientVars>>

\* this.validateHistory(history); this.history = history
setHistory(h) ==
  /\ IF validateHistory(h)
     THEN /\ history' = h
          /\ thrown' = "none"
     ELSE /\ thrown' = "role"
          /\ UNCHANGED history
  /\ UNCHANGED <<sendPromise, calls>>
  /\ UNCHANGED <<curateVars, streamVars, turnVars, heapVars, clientVars>>

clearHistory ==
  /\ history' = <<>>
  /\ thrown' = "none"
  /\ UNCHANGED <<sendPromise, calls>>
  /\ UNCHANGED <<curateVars, streamVars, turnVars, heapVars, clientVars>>

StoreNext ==
  \/ \E content \in AddArgs : addHistory(content)
  \/ \E h \in SetArgs : setHistory(h)
  \/ clearHistory

\* ------------------------------- ThinkAIClient.sendMessageStreamToThinkAI
\* The response body is a sequence of characters.  "D" stands for the
\* prefix `data: `, "N" for the line feed, "Z" for `[DONE]`, " " for a blank;
\* a record {"chunk": t, "done": d} is written "{" t "}" or "{" t "!" "}"
\* (d true), the text t being letters; the letter "F" is a fenced code block.
Letters == {"a", "b", "F"}

Bodies ==
  { <<>>,
    <<"D", "{", "a", "}", "N", "D", "{", "b", "!", "}", "N">>,
    <<"D", "{", "a", "}", "N", "D", "Z", "N", "D", "{", "b", "}", "N">>,
    <<"D", "{", "a", "}", "N", "D", "x", "N", "D", "{", "b", "}", "N">>,
    <<"D", "N", "x", "N", "D", "{", "a", "b", "}">>,
    <<"D", "{", "a", "!", "}", "N", "D", "{", "b", "}", "N">>,
    <<"D", " ", "{", "a", "}", " ", "N", "D", "{", "}", "N", "D", "{", "!", "}",
      "N", "D", "{", "b", "}", "N">> }

\* response texts of the non-streaming /chat request
FallbackTexts == { <<"R">>, <<>> }

\* texts concatenated: the reads of a body, the fragments of a reply
RECURSIVE Concat(_)
Concat(ss) == IF Len(ss) = 0 THEN <<>> ELSE Head(ss) \o Concat(Tail(ss))

\* the ways the transport delivers body s in at most n reads
RECURSIVE Splits(_, _)
Splits(s, n) ==
  IF Len(s) = 0 THEN { <<>> }
  ELSE IF n <= 1 THEN { <<s>> }
  ELSE { <<s>> } \cup
       UNION { { <<SubSeq(s, 1, k)>> \o rest :
                   rest \in Splits(SubSeq(s, k + 1, Len(s)), n - 1) } :
               k \in 1..(Len(s) - 1) }

\* chunk.split('\n')
RECURSIVE SplitLines(_)
SplitLines(s) ==
  IF \A k \in 1..Len(s) : s[k] # "N" THEN <<s>>
  ELSE LET k == CHOOSE k \in 1..Len(s) :
                  s[k] = "N" /\ \A j \in 1..(k - 1) : s[j] # "N"
       IN  <<SubSeq(s, 1, k - 1)>> \o SplitLines(SubSeq(s, k + 1, Len(s)))

\* line.startsWith('data: ')
StartsWithData(line) == Len(line) >= 1 /\ line[1] = "D"

\* String.prototype.trim
RECURSIVE Trim(_)
Trim(s) ==
  IF Len(s) = 0 THEN s
  ELSE IF s[1] = " " THEN Trim(Tail(s))
  ELSE IF s[Len(s)] = " " THEN Trim(SubSeq(s, 1, Len(s) - 1))
  ELSE s

\* line.slice(6).trim()
Payload(line) == Trim(Tail(line))

\* JSON.parse(data) returns a record
ParseOK(data) ==
  /\ Len(data) >= 2
  /\ data[1] = "{"
  /\ data[Len(data)] = "}"
  /\ \A k \in 2..(Len(data) - 1) :
        \/ data[k] \in Letters
        \/ data[k] = "!" /\ k = Len(data) - 1

\* parsed.chunk and parsed.done
ParsedChunk(data) == SelectSeq(data, LAMBDA ch : ch \in Letters)
ParsedDone(data) == data[Len(data) - 1] = "!"

NoFallback == [state |-> "none", at |-> 0, text |-> <<>>]

\* no stream exists
StreamParked ==
  /\ gpc = "none"
  /\ body = <<>>
  /\ reads = <<>>
  /\ lines = <<>>
  /\ after = "lines"
  /\ fragments = <<>>
  /\ seen = <<>>
  /\ fb = NoFallback

\* the generator is created; the service will answer with some body, cut
\* into reads by the transport
StreamStart ==
  /\ gpc = "init"
  /\ body \in Bodies
  /\ reads \in Splits(body, MaxReads)
  /\ lines = <<>>
  /\ after = "lines"
  /\ fragments = <<>>
  /\ seen = <<>>
  /\ fb = NoFallback

\* makeStreamRequest resolves: getReader(), new TextDecoder()
OpenResolves ==
  /\ gpc = "init"
  /\ gpc' = "reading"
  /\ UNCHANGED <<reads, lines, after, fragments, fb, seen, body>>
  /\ UNCHANGED <<curateVars, chatVars, turnVars, heapVars, clientVars>>

\* makeStreamRequest rejects (network error or !response.ok): inner catch
OpenRejects ==
  /\ gpc = "init"
  /\ gpc' = "fallback"
  /\ fb' = [fb EXCEPT !.state = "pending", !.at = Len(fragments)]
  /\ UNCHANGED <<reads, lines, after, fragments, seen, body>>
  /\ UNCHANGED <<curateVars, chatVars, turnVars, heapVars, clientVars>>

\* reader.read() resolves: done, or a chunk that is decoded and split
ReaderRead ==
  /\ gpc = "reading"
  /\ IF Len(reads) = 0
     THEN /\ gpc' = "end"
          /\ UNCHANGED <<reads, lines>>
     ELSE /\ gpc' = "lines"
          /\ lines' = SplitLines(Head(reads))
          /\ reads' = Tail(reads)
  /\ UNCHANGED <<after, fragments, fb, seen, body>>
  /\ UNCHANGED <<curateVars, chatVars, turnVars, heapVars, clientVars>>

\* reader.read() rejects: inner catch, whatever was yielded before
ReaderRejects ==
  /\ gpc = "reading"
  /\ gpc' = "fallback"
  /\ fb' = [fb EXCEPT !.state = "pending", !.at = Len(fragments)]
  /\ UNCHANGED <<reads, lines, after, fragments, seen, body>>
  /\ UNCHANGED <<curateVars, chatVars, turnVars, heapVars, clientVars>>

\* one iteration of `for (const line of lines)`
ProcessLine_DecodeFailureIsFatal ==
  /\ gpc = "lines"
  /\ IF Len(lines) = 0
     THEN /\ gpc' = "reading"
          /\ UNCHANGED <<lines, after, fragments, seen, fb>>
     ELSE LET line == Head(lines)
              data == Payload(line)
          IN  /\ lines' = Tail(lines)
              /\ seen' = IF StartsWithData(line) THEN Append(seen, data)
                         ELSE seen
              /\ IF ~StartsWithData(line) \/ data = <<"Z">> \/ data = <<>>
                 THEN UNCHANGED <<gpc, after, fragments, fb>>
                 ELSE IF ~ParseOK(data)
                 THEN /\ gpc' = "fallback"
                      /\ fb' = [fb EXCEPT !.state = "pending",
                                          !.at = Len(fragments)]
                      /\ UNCHANGED <<after, fragments>>
                 ELSE IF Len(ParsedChunk(data)) > 0
                 THEN /\ fragments' = Append(fragments, ParsedChunk(data))
                      /\ gpc' = "yielded"
                      /\ after' = IF ParsedDone(data) THEN "end" ELSE "lines"
                      /\ UNCHANGED fb
                 ELSE /\ gpc' = IF ParsedDone(data) THEN "end" ELSE "lines"
                      /\ UNCHANGED <<after, fragments, fb>>
  /\ UNCHANGED <<reads, body>>
  /\ UNCHANGED <<curateVars, chatVars, turnVars, heapVars, clientVars>>

ProcessLine ==
  /\ gpc = "lines"
  /\ IF Len(lines) = 0
     THEN /\ gpc' = "reading"
          /\ UNCHANGED <<lines, after, fragments, seen, body>>
     ELSE LET line == Head(lines)
              data == Payload(line)
          IN  /\ lines' = Tail(lines)
              /\ seen' = IF StartsWithData(line) THEN Append(seen, data)
                         ELSE seen
              /\ IF ~StartsWithData(line) \/ data = <<"Z">> \/ data = <<>>
                    \/ ~ParseOK(data)
                 THEN UNCHANGED <<gpc, after, fragments>>
                 ELSE IF Len(ParsedChunk(data)) > 0
                 THEN /\ fragments' = Append(fragments, ParsedChunk(data))
                      /\ gpc' = "yielded"
                      /\ after' = IF ParsedDone(data) THEN "end" ELSE "lines"
                 ELSE /\ gpc' = IF ParsedDone(data) THEN "end" ELSE "lines"
                      /\ UNCHANGED <<after, fragments>>
  /\ UNCHANGED <<reads, fb, body>>
  /\ UNCHANGED <<curateVars, chatVars, turnVars, heapVars, clientVars>>

FallbackResolves_SkipEmpty(text) ==
  /\ gpc = "fallback"
  /\ fb' = [fb EXCEPT !.state = "resolved", !.text = text]
  /\ IF Len(text) > 0
     THEN /\ fragments' = Append(fragments, text)
          /\ gpc' = "yielded"
          /\ after' = "end"
     ELSE /\ gpc' = "end"
          /\ UNCHANGED <<after, fragments, seen, body>>
  /\ UNCHANGED <<reads, lines, seen, body>>
  /\ UNCHANGED <<curateVars, chatVars, turnVars, heapVars, clientVars>>

\* the fallback sendMessageToThinkAI resolves: yield response.response; return
FallbackResolves(text) ==
  /\ gpc = "fallback"
  /\ fb' = [fb EXCEPT !.state = "resolved", !.text = text]
  /\ fragments' = Append(fragments, text)
  /\ gpc' = "yielded"
  /\ after' = "end"
  /\ UNCHANGED <<reads, lines, seen, body>>
  /\ UNCHANGED <<curateVars, chatVars, turnVars, heapVars, clientVars>>

\* the fallback rejects: outer catch, reportError, throw 'Failed to stream
\* message: ...'
FallbackRejects ==
  /\ gpc = "fallback"
  /\ fb' = [fb EXCEPT !.state = "rejected"]
  /\ gpc' = "threw"
  /\ UNCHANGED <<reads, lines, after, fragments, seen, body>>
  /\ UNCHANGED <<curateVars, chatVars, turnVars, heapVars, clientVars>>

\* the consumer (for await) has taken the fragment and asks for the next
Pull ==
  /\ gpc = "yielded"
  /\ gpc' = after
  /\ UNCHANGED <<reads, lines, after, fragments, fb, seen, body>>
  /\ UNCHANGED <<curateVars, chatVars, turnVars, heapVars, clientVars>>

GeneratorNext ==
  \/ OpenResolves
  \/ OpenRejects
  \/ ReaderRead
  \/ ReaderRejects
  \/ ProcessLine
  \/ \E text \in FallbackTexts : FallbackResolves(text)
  \/ FallbackRejects

StreamNext == GeneratorNext \/ Pull

\* ------------- AgenticThinkAIClient / ThinkAIClient .sendMessageStream
\* readonly MAX_TURNS = 100
MAX_TURNS == 100

\* utterances are sequences of words, one space between two words; the token
\* " " is a further space.  A request the heuristic stage has no pattern
\* for, a whitespace-only one, the empty one, and requests for each branch
\* of the heuristic stage.
GolangRequest ==
  <<"write", "a", "simple", "golang", "server", "for", "hello", "world",
    "and", "execute", "it">>

Utterances ==
  { <<"h", "i">>, <<" ">>, <<>>,
    GolangRequest,
    <<"Write", "a", "Golang", "hello", "world", "server">>,
    <<"write", "a", "python", "server", "and", "run", "it">>,
    <<"create", "a", "go", "server">>,
    <<"write", "hello", "in", "go">>,
    <<"create", "a", "server", "for", "the", "command", "runner">>,
    <<"write", "a", "server", "and", "test", "it">>,
    <<"run", "it">>,
    <<" ", "execute", " ">>,
    <<"run", "it", "now">> }

\* !text.trim()
IsBlank(text) == \A k \in 1..Len(text) : text[k] \in {" ", "N"}

\* String.prototype.toLowerCase on one word
LowerWord(w) ==
  CASE w = "Write" -> "write"
    [] w = "Golang" -> "golang"
    [] OTHER -> w

\* message.toLowerCase()
ToLowerCase(text) == [k \in 1..Len(text) |-> LowerWord(text[k])]

\* the keywords of fallbackPatternMatching a word contains as a substring
KeywordsIn(w) ==
  CASE w \in {"write", "create", "server", "hello", "golang", "python",
              "and", "execute", "run"} -> {w}
    [] w = "command" -> {"and"}
    [] w = "runner" -> {"run"}
    [] OTHER -> {}

\* lowerMessage.includes(keyword), keyword without a space
Includes(text, keyword) ==
  \E k \in 1..Len(text) : keyword \in KeywordsIn(text[k])

\* lowerMessage.includes('go '): a word ending in "go" with a space after it
IncludesGoSpace(text) ==
  \E k \in 1..(Len(text) - 1) : text[k] = "go"

\* lowerMessage.match(/^(run|execute|start)(\s+it)?$/i)
MatchesExecuteOnly(text) ==
  /\ Len(text) \in {1, 2}
  /\ text[1] \in {"run", "execute", "start"}
  /\ Len(text) = 2 => text[2] = "it"

\* this.agenticConfig.getWorkingDir()
WorkingDir == "/work"

GoSkeleton == "package main ... net/http ... Hello World! ..."
PythonSkeleton == "print(\"Hello World\")"
NodeSkeleton == "console.log(\"Hello World\");"

\* a FunctionCall: its name ("" when the name is missing), the argument the
\* acknowledgment quotes (file_path / command / path) and, for write_file,
\* the content argument
FunctionCall(name, arg, content) ==
  [name |-> name, arg |-> arg, content |-> content]

\* plan entries the remote planner can answer with
ToolCallPool ==
  { FunctionCall("write_file", <<"server.go">>, "code"),
    FunctionCall("run_shell_command", <<"go run server.go">>, ""),
    FunctionCall("list_directory", <<".">>, ""),
    FunctionCall("", <<"x">>, "") }

Plans == UNION { [1..n -> ToolCallPool] : n \in 0..MaxPlan }

fallbackPatternMatching_NodeCommand(message) ==
  LET lowerMessage == Trim(ToLowerCase(message))
      writePattern == Includes(lowerMessage, "write")
                        \/ Includes(lowerMessage, "create")
      serverPattern == Includes(lowerMessage, "server")
                         \/ Includes(lowerMessage, "hello")
      lang == IF Includes(lowerMessage, "golang")
                   \/ IncludesGoSpace(lowerMessage) THEN "go"
              ELSE IF Includes(lowerMessage, "python") THEN "python"
              ELSE "node"
      fileName == CASE lang = "go" -> "server.go"
                    [] lang = "python" -> "server.py"
                    [] OTHER -> "server.js"
      content == CASE lang = "go" -> GoSkeleton
                   [] lang = "python" -> PythonSkeleton
                   [] OTHER -> NodeSkeleton
      runCommand == "node server.js"
      toolCalls ==
        IF writePattern /\ serverPattern
        THEN <<FunctionCall("write_file", <<WorkingDir, "/", fileName>>,
                            content)>>
             \o (IF Includes(lowerMessage, "and")
                     /\ (Includes(lowerMessage, "execute")
                           \/ Includes(lowerMessage, "run"))
                 THEN <<FunctionCall("run_shell_command", <<runCommand>>, "")>>
                 ELSE <<>>)
        ELSE IF MatchesExecuteOnly(lowerMessage)
        THEN <<FunctionCall("run_shell_command", <<"node server.js">>, "")>>
        ELSE <<>>
  IN  [needsTools |-> Len(toolCalls) > 0, toolCalls |-> toolCalls]

\* fallbackPatternMatching(message): the plan of the heuristic stage
fallbackPatternMatching(message) ==
  LET lowerMessage == Trim(ToLowerCase(message))
      writePattern == Includes(lowerMessage, "write")
                        \/ Includes(lowerMessage, "create")
      serverPattern == Includes(lowerMessage, "server")
                         \/ Includes(lowerMessage, "hello")
      lang == IF Includes(lowerMessage, "golang")
                   \/ IncludesGoSpace(lowerMessage) THEN "go"
              ELSE IF Includes(lowerMessage, "python") THEN "python"
              ELSE "node"
      fileName == CASE lang = "go" -> "server.go"
                    [] lang = "python" -> "server.py"
                    [] OTHER -> "server.js"
      content == CASE lang = "go" -> GoSkeleton
                   [] lang = "python" -> PythonSkeleton
                   [] OTHER -> NodeSkeleton
      runCommand == CASE lang = "go" -> "go run server.go"
                      [] lang = "python" -> "python3 server.py"
                      [] OTHER -> "node server.js"
      toolCalls ==
        IF writePattern /\ serverPattern
        THEN <<FunctionCall("write_file", <<WorkingDir, "/", fileName>>,
                            content)>>
             \o (IF Includes(lowerMessage, "and")
                     /\ (Includes(lowerMessage, "execute")
                           \/ Includes(lowerMessage, "run"))
                 THEN <<FunctionCall("run_shell_command", <<runCommand>>, "")>>
                 ELSE <<>>)
        ELSE IF MatchesExecuteOnly(lowerMessage)
        THEN <<FunctionCall("run_shell_command", <<"node server.js">>, "")>>
        ELSE <<>>
  IN  [needsTools |-> Len(toolCalls) > 0, toolCalls |-> toolCalls]

\* replies of the remote planning stage: a JSON object, bare, inside a code
\* fence or inside prose, with the fields it has; or text that is not JSON
PlannerReplies ==
  { [form |-> f, fields |-> fs, needsTools |-> b, toolCalls |-> p] :
      f \in {"json", "fenced", "prose"},
      fs \in SUBSET {"needsTools", "toolCalls"},
      b \in BOOLEAN, p \in Plans }
  \cup { [form |-> "notJson", fields |-> {}, needsTools |-> FALSE,
          toolCalls |-> <<>>] }

\* the replies the remote stage gives in a turn: any reply to GolangRequest,
\* a reply without a plan to the other requests
PlannerRepliesTo(message) ==
  IF message = GolangRequest THEN PlannerReplies
  ELSE { reply \in PlannerReplies : reply.toolCalls = <<>> }

\* the fence is stripped, the brace-delimited part is cut out of prose, and
\* JSON.parse succeeds
Decodable(reply) == reply.form \in {"json", "fenced", "prose"}

\* { needsTools: parsed.needsTools || false, toolCalls: parsed.toolCalls || [] }
Decode(reply) ==
  [needsTools |-> "needsTools" \in reply.fields /\ reply.needsTools,
   toolCalls |-> IF "toolCalls" \in reply.fields THEN reply.toolCalls
                 ELSE <<>>]

\* what happens to one plan entry inside executeLocalTools
ToolOutcomes ==
  {"noRegistry", "missingName", "notFound", "output", "noOutput", "threw"}

\* the outcomes one entry can have: a nameless entry stops at the name check
\* unless the registry is unavailable or its getter throws
OutcomesOf(toolCall) ==
  IF toolCall.name = "" THEN {"noRegistry", "missingName", "threw"}
  ELSE ToolOutcomes \ {"missingName"}

FailingOutcomes == {"noRegistry", "missingName", "notFound", "threw"}

\* toolName || 'unknown'
NameOrUnknown(toolCall) ==
  IF toolCall.name = "" THEN "unknown" ELSE toolCall.name

\* the line executeLocalTools pushes for one entry
Report(toolCall, outcome) ==
  CASE outcome = "noRegistry" ->
         <<"Tool registry not available for ", NameOrUnknown(toolCall)>>
    [] outcome = "missingName" -> <<"Tool call missing name">>
    [] outcome = "notFound" -> <<"Tool '", toolCall.name, "' not found">>
    [] outcome = "output" ->
         <<"Tool '", toolCall.name, "' executed successfully:\n", "out">>
    [] outcome = "noOutput" ->
         <<"Tool '", toolCall.name, "' executed successfully (no output)">>
    [] OTHER ->
         <<"Error executing tool '", NameOrUnknown(toolCall), "': ", "err">>

RECURSIVE Join_NoSeparator(_)
Join_NoSeparator(results) ==
  IF Len(results) = 0 THEN <<>>
  ELSE results[1] \o Join_NoSeparator(Tail(results))

\* results.join('\n\n')
RECURSIVE Join(_)
Join(results) ==
  IF Len(results) = 0 THEN <<>>
  ELSE IF Len(results) = 1 THEN results[1]
  ELSE results[1] \o <<"\n\n">> \o Join(Tail(results))

NoScheduler ==
  <<"Tool scheduler not initialized. Cannot execute local tools.">>

\* the emoji and the space every acknowledgment template starts with
CheckMark == "[U+2705] "

\* the templated acknowledgment followed by the aggregate report
HelpfulResponse(toolCalls, toolResults) ==
  LET fileOperations == SelectSeq(toolCalls, LAMBDA tc : tc.name = "write_file")
      commandOperations ==
        SelectSeq(toolCalls, LAMBDA tc : tc.name = "run_shell_command")
  IN  IF Len(fileOperations) > 0 /\ Len(commandOperations) > 0
      THEN <<CheckMark, "Created '">> \o fileOperations[1].arg
             \o <<"' and executed '">> \o commandOperations[1].arg
             \o <<"'", "\n\n">> \o toolResults
      ELSE IF Len(fileOperations) > 0
      THEN <<CheckMark, "Created file '">> \o fileOperations[1].arg
             \o <<"'", "\n\n">> \o toolResults
      ELSE IF Len(commandOperations) > 0
      THEN <<CheckMark, "Executed '">> \o commandOperations[1].arg
             \o <<"'", "\n\n">> \o toolResults
      ELSE <<CheckMark, "Completed operation", "\n\n">> \o toolResults

\* the local reply of the agentic client when the stream throws
FallbackResponse(message) ==
  <<"I understand you want to \"">> \o message \o <<"\". However, ...">>

ContentEvent(value) == [type |-> "content", value |-> value]
ErrorEvent == [type |-> "error", value |-> <<"Failed to stream message">>]

\* startChat: the two synthetic turns every conversation is seeded with
SeedHistory ==
  << Content("user", <<TextPart(<<"env">>)>>),
     Content("model", <<TextPart(<<"Got it. Thanks for the context!">>)>>) >>

\* the two turns a tool-path turn on this utterance leaves in the history
\* when the heuristic stage plans it and every tool prints something
CreationTurns(message) ==
  LET toolCalls == fallbackPatternMatching(message).toolCalls
      toolResults ==
        Join([n \in 1..Len(toolCalls) |-> Report(toolCalls[n], "output")])
  IN  << Content("user", <<TextPart(message)>>),
         Content("model",
                 <<TextPart(HelpfulResponse(toolCalls, toolResults))>>) >>

\* histories a turn starts from: a fresh conversation, or one in which a Go
\* file or a Python file has been created before
PriorHistories ==
  { SeedHistory,
    SeedHistory \o CreationTurns(<<"create", "a", "go", "server">>),
    SeedHistory
      \o CreationTurns(<<"write", "a", "python", "server", "and", "run",
                         "it">>) }

\* the requests made in a conversation: any utterance in a fresh one, an
\* execute-only utterance after a file creation
UtterancesAfter(h) ==
  IF h = SeedHistory THEN Utterances
  ELSE { <<"run", "it">>, <<" ", "execute", " ">> }

\* the ways the body of the streaming endpoint arrives in a turn: every body
\* in every split for the plain request, three bodies in one read otherwise,
\* one of them a reply with a fenced code block
TurnReads(message) ==
  IF message = <<"h", "i">>
  THEN UNION { Splits(b, MaxReads) : b \in Bodies }
  ELSE { <<>>, << <<"D", "{", "a", "}", "N", "D", "{", "b", "!", "}", "N">> >>,
         << <<"D", "{", "a", "F", "}", "N", "D", "{", "b", "}", "N">> >> }

IdleTurn(impl, hasScheduler) ==
  [pc |-> "idle", impl |-> impl, hasScheduler |-> hasScheduler,
   message |-> <<>>, path |-> "none", toolCalls |-> <<>>, k |-> 1,
   planner |-> "none", remoteFailed |-> FALSE,
   results |-> <<>>, invoked |-> 0, inflight |-> 0, toolResults |-> <<>>,
   response |-> <<>>, hist0 |-> <<>>, turns |-> MAX_TURNS,
   abortedAtStart |-> FALSE, observed |-> FALSE]

\* no turn exists
TurnParked ==
  /\ turn = IdleTurn("none", FALSE)
  /\ aborted = FALSE
  /\ events = <<>>

\* a client after initialize(), with or without a tool scheduler
TurnStart ==
  /\ turn \in { IdleTurn(impl, hasScheduler) :
                  impl \in {"agentic", "base"}, hasScheduler \in BOOLEAN }
  /\ aborted = FALSE
  /\ events = <<>>
  /\ history \in PriorHistories
  /\ thrown = "none"
  /\ CallsParked
  /\ StreamParked

\* the caller aborts the signal of the turn
Abort ==
  /\ turn.pc # "returned"
  /\ ~aborted
  /\ aborted' = TRUE
  /\ UNCHANGED <<turn, events>>
  /\ UNCHANGED <<curateVars, chatVars, streamVars, heapVars, clientVars>>

SendMessageStream_NoBlankCheck(message, turns) ==
  /\ turn.pc = "idle"
  /\ message \in UtterancesAfter(history)
  /\ IF turns = 0
     THEN /\ turn' = [turn EXCEPT !.pc = "returned", !.message = message,
                                  !.turns = turns,
                                  !.hist0 = history,
                                  !.abortedAtStart = aborted]
          /\ UNCHANGED <<history, gpc, reads, body>>
     ELSE /\ history' = Append(history, Content("user", <<TextPart(message)>>))
          /\ turn' = [turn EXCEPT
                        !.pc = IF turn.impl = "agentic" THEN "intent"
                               ELSE "stream",
                        !.path = IF turn.impl = "agentic" THEN "none"
                                 ELSE "stream",
                        !.message = message,
                        !.turns = turns,
                        !.hist0 = history,
                        !.abortedAtStart = aborted]
          /\ IF turn.impl = "agentic"
             THEN UNCHANGED <<gpc, reads, body>>
             ELSE /\ gpc' = "init"
                  /\ reads' \in TurnReads(message)
                  /\ body' = Concat(reads')
  /\ UNCHANGED <<aborted, events>>
  /\ UNCHANGED <<sendPromise, calls, thrown, lines, after, fragments, fb, seen>>
  /\ UNCHANGED <<curateVars, heapVars, clientVars>>

\* sendMessageStream(request, signal, turns) up to its first await: the
\* early returns, then addHistory of the user turn.  The base client goes on
\* to create the stream with mode 'code'.
SendMessageStream(message, turns) ==
  /\ turn.pc = "idle"
  /\ message \in UtterancesAfter(history)
  /\ IF turns = 0 \/ IsBlank(message)
     THEN /\ turn' = [turn EXCEPT !.pc = "returned", !.message = message,
                                  !.turns = turns,
                                  !.hist0 = history,
                                  !.abortedAtStart = aborted]
          /\ UNCHANGED <<history, gpc, reads, body>>
     ELSE /\ history' = Append(history, Content("user", <<TextPart(message)>>))
          /\ turn' = [turn EXCEPT
                        !.pc = IF turn.impl = "agentic" THEN "intent"
                               ELSE "stream",
                        !.path = IF turn.impl = "agentic" THEN "none"
                                 ELSE "stream",
                        !.message = message,
                        !.turns = turns,
                        !.hist0 = history,
                        !.abortedAtStart = aborted]
          /\ IF turn.impl = "agentic"
             THEN UNCHANGED <<gpc, reads, body>>
             ELSE /\ gpc' = "init"
                  /\ reads' \in TurnReads(message)
                  /\ body' = Concat(reads')
  /\ UNCHANGED <<aborted, events>>
  /\ UNCHANGED <<sendPromise, calls, thrown, lines, after, fragments, fb, seen>>
  /\ UNCHANGED <<curateVars, heapVars, clientVars>>

\* the continuation of sendMessageStream once requiresLocalTools has
\* resolved: on the tool path the progress line is yielded and
\* executeLocalTools is entered, otherwise selectMode is awaited
IntentResolved(needsTools, toolCalls, planner, remoteFailed) ==
  /\ IF needsTools /\ Len(toolCalls) > 0
     THEN /\ turn' = [turn EXCEPT !.pc = "tools", !.path = "tools",
                                  !.toolCalls = toolCalls,
                                  !.planner = planner,
                                  !.remoteFailed = remoteFailed]
          /\ events' = Append(events,
               ContentEvent(<<"[U+2726] Executing ",
                              ToString(Len(toolCalls)), " tool(s) for: ">>
                            \o turn.message \o <<"\n\n">>))
     ELSE /\ turn' = [turn EXCEPT !.pc = "mode", !.path = "stream",
                                  !.planner = planner,
                                  !.remoteFailed = remoteFailed]
          /\ UNCHANGED events
  /\ UNCHANGED aborted
  /\ UNCHANGED <<curateVars, chatVars, streamVars, heapVars, clientVars>>

\* parseUserIntent, the request of the remote planning stage resolves: a
\* decodable reply is the plan, an undecodable one is caught and the
\* heuristic stage answers
ParseUserIntentResolves(reply) ==
  /\ turn.pc = "intent"
  /\ reply \in PlannerRepliesTo(turn.message)
  /\ IF Decodable(reply)
     THEN IntentResolved(Decode(reply).needsTools, Decode(reply).toolCalls,
                         "remote", FALSE)
     ELSE IntentResolved(fallbackPatternMatching(turn.message).needsTools,
                         fallbackPatternMatching(turn.message).toolCalls,
                         "heuristic", TRUE)

ParseUserIntentRejects_Surfaces ==
  /\ turn.pc = "intent"
  /\ turn' = [turn EXCEPT !.pc = "returned", !.remoteFailed = TRUE]
  /\ events' = Append(events, ErrorEvent)
  /\ UNCHANGED aborted
  /\ UNCHANGED <<curateVars, chatVars, streamVars, heapVars, clientVars>>

\* parseUserIntent, the request of the remote planning stage rejects: the
\* catch block returns the plan of the heuristic stage
ParseUserIntentRejects ==
  /\ turn.pc = "intent"
  /\ IntentResolved(fallbackPatternMatching(turn.message).needsTools,
                    fallbackPatternMatching(turn.message).toolCalls,
                    "heuristic", TRUE)

\* the outcome is that of tool.execute: the promise of the call settles
Settles(toolCall, outcome) ==
  outcome \in {"output", "noOutput", "threw"} /\ toolCall.name # ""

InvokeTool_NotAwaited ==
  /\ turn.pc = "tools"
  /\ turn.hasScheduler
  /\ turn.k <= Len(turn.toolCalls)
  /\ turn.toolCalls[turn.k].name # ""
  /\ turn' = [turn EXCEPT !.inflight = turn.inflight + 1,
                          !.k = turn.k + 1]
  /\ UNCHANGED <<aborted, events>>
  /\ UNCHANGED <<curateVars, chatVars, streamVars, heapVars, clientVars>>

\* executeLocalTools: the tool is found, tool.execute(args, timeout signal)
\* is called and awaited
InvokeTool ==
  /\ turn.pc = "tools"
  /\ turn.hasScheduler
  /\ turn.k <= Len(turn.toolCalls)
  /\ turn.toolCalls[turn.k].name # ""
  /\ turn' = [turn EXCEPT !.pc = "executing",
                          !.inflight = turn.inflight + 1]
  /\ UNCHANGED <<aborted, events>>
  /\ UNCHANGED <<curateVars, chatVars, streamVars, heapVars, clientVars>>

ExecuteTool_StopAtFailure(outcome) ==
  /\ turn.hasScheduler
  /\ turn.k <= Len(turn.toolCalls)
  /\ turn.pc = IF Settles(turn.toolCalls[turn.k], outcome) THEN "executing"
               ELSE "tools"
  /\ outcome \in OutcomesOf(turn.toolCalls[turn.k])
  /\ turn' = [turn EXCEPT
                !.pc = "tools",
                !.inflight = IF Settles(turn.toolCalls[turn.k], outcome)
                             THEN turn.inflight - 1 ELSE turn.inflight,
                !.results = Append(turn.results,
                                   Report(turn.toolCalls[turn.k], outcome)),
                !.invoked = turn.invoked
                            + (IF /\ outcome \in {"output", "noOutput", "threw"}
                                  /\ turn.toolCalls[turn.k].name # ""
                               THEN 1 ELSE 0),
                !.k = IF outcome \in FailingOutcomes
                      THEN Len(turn.toolCalls) + 1 ELSE turn.k + 1]
  /\ UNCHANGED <<aborted, events>>
  /\ UNCHANGED <<curateVars, chatVars, streamVars, heapVars, clientVars>>

\* executeLocalTools: one iteration of `for (const toolCall of toolCalls)`,
\* from the settled tool.execute, or from the loop head when the entry is
\* reported without an invocation
ExecuteTool(outcome) ==
  /\ turn.hasScheduler
  /\ turn.k <= Len(turn.toolCalls)
  /\ turn.pc = IF Settles(turn.toolCalls[turn.k], outcome) THEN "executing"
               ELSE "tools"
  /\ outcome \in OutcomesOf(turn.toolCalls[turn.k])
  /\ turn' = [turn EXCEPT
                !.pc = "tools",
                !.inflight = IF Settles(turn.toolCalls[turn.k], outcome)
                             THEN turn.inflight - 1 ELSE turn.inflight,
                !.results = Append(turn.results,
                                   Report(turn.toolCalls[turn.k], outcome)),
                !.invoked = turn.invoked
                            + (IF /\ outcome \in {"output", "noOutput", "threw"}
                                  /\ turn.toolCalls[turn.k].name # ""
                               THEN 1 ELSE 0),
                !.k = turn.k + 1]
  /\ UNCHANGED <<aborted, events>>
  /\ UNCHANGED <<curateVars, chatVars, streamVars, heapVars, clientVars>>

Synthesize_YieldsReport ==
  /\ turn.pc = "tools"
  /\ ~turn.hasScheduler \/ turn.k > Len(turn.toolCalls)
  /\ LET toolResults == IF turn.hasScheduler THEN Join(turn.results)
                        ELSE NoScheduler
         helpfulResponse == HelpfulResponse(turn.toolCalls, toolResults)
     IN  /\ turn' = [turn EXCEPT !.pc = "commit",
                                 !.toolResults = toolResults,
                                 !.response = helpfulResponse]
         /\ events' = Append(events, ContentEvent(toolResults))
  /\ UNCHANGED aborted
  /\ UNCHANGED <<curateVars, chatVars, streamVars, heapVars, clientVars>>

\* executeLocalTools returns; the acknowledgment is built and yielded
Synthesize ==
  /\ turn.pc = "tools"
  /\ ~turn.hasScheduler \/ turn.k > Len(turn.toolCalls)
  /\ LET toolResults == IF turn.hasScheduler THEN Join(turn.results)
                        ELSE NoScheduler
         helpfulResponse == HelpfulResponse(turn.toolCalls, toolResults)
     IN  /\ turn' = [turn EXCEPT !.pc = "commit",
                                 !.toolResults = toolResults,
                                 !.response = helpfulResponse]
         /\ events' = Append(events, ContentEvent(helpfulResponse))
  /\ UNCHANGED aborted
  /\ UNCHANGED <<curateVars, chatVars, streamVars, heapVars, clientVars>>

\* selectMode resolves; the stream generator is created
ModeSelected ==
  /\ turn.pc = "mode"
  /\ turn' = [turn EXCEPT !.pc = "stream"]
  /\ gpc' = "init"
  /\ reads' \in TurnReads(turn.message)
  /\ body' = Concat(reads')
  /\ UNCHANGED <<lines, after, fragments, fb, seen>>
  /\ UNCHANGED <<aborted, events>>
  /\ UNCHANGED <<curateVars, chatVars, heapVars, clientVars>>

\* loop body, signal not aborted: response += chunk; yield the chunk
Relay ==
  /\ turn.pc = "stream"
  /\ gpc = "yielded"
  /\ ~aborted
  /\ turn' = [turn EXCEPT
                !.response = turn.response \o fragments[Len(fragments)]]
  /\ events' = Append(events, ContentEvent(fragments[Len(fragments)]))
  /\ gpc' = after
  /\ UNCHANGED <<reads, lines, after, fragments, fb, seen, body>>
  /\ UNCHANGED aborted
  /\ UNCHANGED <<curateVars, chatVars, heapVars, clientVars>>

\* loop body, signal aborted: break (the generator is closed)
Break ==
  /\ turn.pc = "stream"
  /\ gpc = "yielded"
  /\ aborted
  /\ turn' = [turn EXCEPT !.pc = "commit", !.observed = TRUE]
  /\ gpc' = "end"
  /\ UNCHANGED <<reads, lines, after, fragments, fb, seen, body>>
  /\ UNCHANGED <<aborted, events>>
  /\ UNCHANGED <<curateVars, chatVars, heapVars, clientVars>>

\* the stream is exhausted
StreamDone ==
  /\ turn.pc = "stream"
  /\ gpc = "end"
  /\ turn' = [turn EXCEPT !.pc = "commit"]
  /\ UNCHANGED <<aborted, events>>
  /\ UNCHANGED <<curateVars, chatVars, streamVars, heapVars, clientVars>>

\* the stream throws.  Agentic client: inner catch, the local reply becomes
\* the response and is yielded.  Base client: outer catch, an Error event.
StreamFailed ==
  /\ turn.pc = "stream"
  /\ gpc = "threw"
  /\ IF turn.impl = "agentic"
     THEN /\ turn' = [turn EXCEPT !.pc = "commit",
                        !.response = FallbackResponse(turn.message)]
          /\ events' = Append(events,
                              ContentEvent(FallbackResponse(turn.message)))
     ELSE /\ turn' = [turn EXCEPT !.pc = "returned"]
          /\ events' = Append(events, ErrorEvent)
  /\ UNCHANGED aborted
  /\ UNCHANGED <<curateVars, chatVars, streamVars, heapVars, clientVars>>

CommitModelTurn_IgnoreSignal ==
  /\ turn.pc = "commit"
  /\ IF ~IsBlank(turn.response)
     THEN history' = Append(history,
                            Content("model", <<TextPart(turn.response)>>))
     ELSE UNCHANGED history
  /\ turn' = [turn EXCEPT !.pc = "returned",
                          !.observed = turn.observed \/ aborted]
  /\ UNCHANGED <<aborted, events>>
  /\ UNCHANGED <<sendPromise, calls, thrown>>
  /\ UNCHANGED <<curateVars, streamVars, heapVars, clientVars>>

\* if (!signal.aborted && response.trim()) addHistory(model turn); return
CommitModelTurn ==
  /\ turn.pc = "commit"
  /\ IF ~aborted /\ ~IsBlank(turn.response)
     THEN history' = Append(history,
                            Content("model", <<TextPart(turn.response)>>))
     ELSE UNCHANGED history
  /\ turn' = [turn EXCEPT !.pc = "returned",
                          !.observed = turn.observed \/ aborted]
  /\ UNCHANGED <<aborted, events>>
  /\ UNCHANGED <<sendPromise, calls, thrown>>
  /\ UNCHANGED <<curateVars, streamVars, heapVars, clientVars>>

TurnNext ==
  \/ Abort
  \/ \E message \in Utterances, turns \in {0, MAX_TURNS} :
        SendMessageStream(message, turns)
  \/ \E reply \in PlannerReplies : ParseUserIntentResolves(reply)
  \/ ParseUserIntentRejects
  \/ InvokeTool
  \/ \E outcome \in ToolOutcomes : ExecuteTool(outcome)
  \/ Synthesize
  \/ ModeSelected
  \/ GeneratorNext
  \/ Relay
  \/ Break
  \/ StreamDone
  \/ StreamFailed
  \/ CommitModelTurn

\* ------------------------------------- ThinkAIChat, who holds a reference
\* Turns and arrays are objects: objs[o] is the value of turn object o,
\* arrays[a] the identities array a holds, stored the array this.history
\* points to.  held records the references the caller has: the objects
\* and arrays it passed to the constructor, addHistory or setHistory, the
\* ones getHistory returned to it, and the content objects of the responses
\* sendMessage returned to it.
NoReferences ==
  [passedObjs |-> {}, passedArrays |-> {}, returnedObjs |-> {},
   returnedArrays |-> {}, responseObjs |-> {}]

\* turns a caller builds
OwnerTurns ==
  { Content("user", <<TextPart(<<"a">>)>>),
    Content("model", <<TextPart(<<"b">>)>>),
    Content("model", <<EmptyText>>) }

\* arrays a caller builds
OwnerArrays == UNION { [1..n -> OwnerTurns] : n \in 0..2 }

\* the value of an array: the values of its turns, in order
ValueOf(a) == [k \in 1..Len(arrays[a]) |-> objs[arrays[a][k]]]

\* the value of this.history
StoredValue == ValueOf(stored)

\* the identities of the n objects allocated next
Fresh(n) == [k \in 1..n |-> Len(objs) + k]

Range(f) == { f[k] : k \in DOMAIN f }

\* extractCuratedHistory as a function of the history, from index k on
RECURSIVE CurateFrom(_, _, _)
CurateFrom(h, k, curated) ==
  IF k > Len(h) THEN curated
  ELSE IF h[k].role = "user" THEN CurateFrom(h, k + 1, Append(curated, h[k]))
  ELSE CurateFrom(h, RunEnd(h, k),
                  AfterModelRun(curated, SubSeq(h, k, RunEnd(h, k) - 1)))

HeapParked ==
  /\ objs = <<>>
  /\ arrays = <<>>
  /\ stored = 0
  /\ held = NoReferences

\* constructor: without a history argument the store gets an array of its
\* own; with one, the caller's array is validated and stored as it is
OwnerStart ==
  \/ /\ objs = <<>>
     /\ arrays = << <<>> >>
     /\ stored = 1
     /\ held = NoReferences
  \/ \E h \in OwnerArrays :
        /\ validateHistory(h)
        /\ objs = h
        /\ arrays = << [k \in 1..Len(h) |-> k] >>
        /\ stored = 1
        /\ held = [NoReferences EXCEPT !.passedObjs = 1..Len(h),
                                       !.passedArrays = {1}]

\* addHistory(content): this.history.push(content), the caller's object
OwnerAddHistory(content) ==
  /\ Len(objs) < MaxObjects
  /\ objs' = Append(objs, content)
  /\ arrays' = [arrays EXCEPT ![stored] = Append(@, Len(objs) + 1)]
  /\ held' = [held EXCEPT !.passedObjs = @ \cup {Len(objs) + 1}]
  /\ UNCHANGED stored
  /\ UNCHANGED <<curateVars, chatVars, streamVars, turnVars, clientVars>>

\* setHistory(history): validate, then this.history = history, the caller's
\* array
OwnerSetHistory(h) ==
  /\ Len(objs) + Len(h) <= MaxObjects
  /\ Len(arrays) < MaxArrays
  /\ objs' = objs \o h
  /\ arrays' = Append(arrays, Fresh(Len(h)))
  /\ stored' = IF validateHistory(h) THEN Len(arrays) + 1 ELSE stored
  /\ held' = [held EXCEPT !.passedObjs = @ \cup Range(Fresh(Len(h))),
                          !.passedArrays = @ \cup {Len(arrays) + 1}]
  /\ UNCHANGED <<curateVars, chatVars, streamVars, turnVars, clientVars>>

OwnerGetHistory_NoClone(curated) ==
  /\ curated => validateHistory(StoredValue)
  /\ held' = [held EXCEPT !.returnedObjs = @ \cup Range(arrays[stored]),
                          !.returnedArrays = @ \cup {stored}]
  /\ UNCHANGED <<objs, arrays, stored>>
  /\ UNCHANGED <<curateVars, chatVars, streamVars, turnVars, clientVars>>

\* getHistory(curated): structuredClone of the stored array, or of its
\* curated projection, is returned: a new array of new objects
OwnerGetHistory(curated) ==
  /\ curated => validateHistory(StoredValue)
  /\ LET result == IF curated THEN CurateFrom(StoredValue, 1, <<>>)
                   ELSE StoredValue
     IN  /\ Len(objs) + Len(result) <= MaxObjects
         /\ Len(arrays) < MaxArrays
         /\ objs' = objs \o result
         /\ arrays' = Append(arrays, Fresh(Len(result)))
         /\ held' = [held EXCEPT
                       !.returnedObjs = @ \cup Range(Fresh(Len(result))),
                       !.returnedArrays = @ \cup {Len(arrays) + 1}]
  /\ UNCHANGED stored
  /\ UNCHANGED <<curateVars, chatVars, streamVars, turnVars, clientVars>>

\* sendMessage with no other call in flight: the user content it creates is
\* pushed, then the content object of the response, and the response is
\* returned to the caller
OwnerSendMessage(reply) ==
  /\ Len(objs) + 2 <= MaxObjects
  /\ objs' = objs \o << createUserContent(<<"m">>),
                        Content("model", <<TextPart(reply)>>) >>
  /\ arrays' = [arrays EXCEPT ![stored] = @ \o Fresh(2)]
  /\ held' = [held EXCEPT !.responseObjs = @ \cup {Len(objs) + 2}]
  /\ UNCHANGED stored
  /\ UNCHANGED <<curateVars, chatVars, streamVars, turnVars, clientVars>>

\* the text a caller writes into a turn it holds
Overwritten(content) == Content(content.role, <<TextPart(<<"z">>)>>)

\* the caller assigns to a part of a turn object it holds
CallerMutatesTurn(o) ==
  /\ o \in held.passedObjs \cup held.returnedObjs \cup held.responseObjs
  /\ objs[o] # Overwritten(objs[o])
  /\ objs' = [objs EXCEPT ![o] = Overwritten(@)]
  /\ UNCHANGED <<arrays, stored, held>>
  /\ UNCHANGED <<curateVars, chatVars, streamVars, turnVars, clientVars>>

\* the caller pops the last element of an array it holds
CallerMutatesArray(a) ==
  /\ a \in held.passedArrays \cup held.returnedArrays
  /\ Len(arrays[a]) > 0
  /\ arrays' = [arrays EXCEPT ![a] = Pop(@)]
  /\ UNCHANGED <<objs, stored, held>>
  /\ UNCHANGED <<curateVars, chatVars, streamVars, turnVars, clientVars>>

OwnerNext ==
  \/ \E content \in OwnerTurns : OwnerAddHistory(content)
  \/ \E h \in OwnerArrays : OwnerSetHistory(h)
  \/ \E curated \in BOOLEAN : OwnerGetHistory(curated)
  \/ \E reply \in Replies : OwnerSendMessage(reply)
  \/ \E o \in 1..MaxObjects : CallerMutatesTurn(o)
  \/ \E a \in 1..MaxArrays : CallerMutatesArray(a)

\* ------------------------------- ThinkAIClient: session and /chat requests
\* values generateSessionId can return (time stamp and random suffix)
SessionIds == {"s1", "s2"}

\* causes a /chat attempt can fail with, and response texts of the service
Causes == {"e1", "e2"}
Responses == {"r1", "r2"}

\* the request body; chat is the ThinkAIChat in place when it was sent
Request(endpoint) ==
  [endpoint |-> endpoint, session_id |-> client.sessionId,
   chat |-> client.chats]

NoOperation ==
  [pc |-> "idle", op |-> "none", attempt |-> 0, causes |-> <<>>,
   result |-> "", error |-> <<>>]

\* no client exists
ClientParked ==
  /\ client = [sessionId |-> "", chats |-> 0, call |-> NoOperation]
  /\ requests = <<>>

\* constructor: this.sessionId = this.generateSessionId()
ClientStart ==
  /\ \E id \in SessionIds :
        client = [sessionId |-> id, chats |-> 0, call |-> NoOperation]
  /\ requests = <<>>

resetChat_NewSession ==
  /\ client.call.pc = "idle"
  /\ client.chats < MaxChats
  /\ \E id \in SessionIds :
        client' = [client EXCEPT !.chats = @ + 1, !.sessionId = id]
  /\ UNCHANGED requests
  /\ UNCHANGED <<curateVars, chatVars, streamVars, turnVars, heapVars>>

\* initialize / resetChat: this.chat = await this.startChat(), which hands
\* this.sessionId to the new ThinkAIChat
resetChat ==
  /\ client.call.pc = "idle"
  /\ client.chats < MaxChats
  /\ client' = [client EXCEPT !.chats = @ + 1]
  /\ UNCHANGED requests
  /\ UNCHANGED <<curateVars, chatVars, streamVars, turnVars, heapVars>>

\* sendMessageToThinkAI: the request is built, retryWithBackoff is entered
sendMessageToThinkAI ==
  /\ client.call.pc = "idle"
  /\ Len(requests) < MaxRequests
  /\ client' = [client EXCEPT !.call = [NoOperation EXCEPT !.pc = "attempt",
                                          !.op = "send", !.attempt = 1]]
  /\ UNCHANGED requests
  /\ UNCHANGED <<curateVars, chatVars, streamVars, turnVars, heapVars>>

\* sendMessageStreamToThinkAI: the request is built, makeStreamRequest sends
sendMessageStreamToThinkAI ==
  /\ client.call.pc = "idle"
  /\ Len(requests) < MaxRequests
  /\ client' = [client EXCEPT !.call = [NoOperation EXCEPT !.pc = "open",
                                          !.op = "stream"]]
  /\ UNCHANGED requests
  /\ UNCHANGED <<curateVars, chatVars, streamVars, turnVars, heapVars>>

\* the streamed request is answered and read to its end
StreamSucceeds ==
  /\ client.call.pc = "open"
  /\ requests' = Append(requests, Request("/chat/stream"))
  /\ client' = [client EXCEPT !.call.pc = "returned"]
  /\ UNCHANGED <<curateVars, chatVars, streamVars, turnVars, heapVars>>

\* the streamed request fails: inner catch, sendMessageToThinkAI
StreamFails ==
  /\ client.call.pc = "open"
  /\ requests' = Append(requests, Request("/chat/stream"))
  /\ client' = [client EXCEPT !.call.pc = "attempt", !.call.attempt = 1]
  /\ UNCHANGED <<curateVars, chatVars, streamVars, turnVars, heapVars>>

\* one attempt of the /chat request succeeds: its response is returned
AttemptResolves(response) ==
  /\ client.call.pc = "attempt"
  /\ requests' = Append(requests, Request("/chat"))
  /\ client' = [client EXCEPT !.call.pc = "returned",
                              !.call.result = response]
  /\ UNCHANGED <<curateVars, chatVars, streamVars, turnVars, heapVars>>

Failure_DropsCause(op, cause) ==
  IF op = "send" THEN <<"Failed to send message: ">>
  ELSE <<"Failed to stream message: ", "Failed to send message: ">>

\* the error sendMessageToThinkAI / sendMessageStreamToThinkAI throws
Failure(op, cause) ==
  IF op = "send" THEN <<"Failed to send message: ", cause>>
  ELSE <<"Failed to stream message: ", "Failed to send message: ", cause>>

\* one attempt of the /chat request fails: the next attempt after the
\* back-off delay, or, the budget spent, the last cause is thrown and
\* wrapped by the catch of sendMessageToThinkAI
AttemptRejects(cause) ==
  /\ client.call.pc = "attempt"
  /\ requests' = Append(requests, Request("/chat"))
  /\ IF client.call.attempt < MaxAttempts
     THEN client' = [client EXCEPT !.call.causes = Append(@, cause),
                                   !.call.attempt = @ + 1]
     ELSE client' = [client EXCEPT
                       !.call.causes = Append(@, cause),
                       !.call.pc = "threw",
                       !.call.error = Failure(client.call.op, cause)]
  /\ UNCHANGED <<curateVars, chatVars, streamVars, turnVars, heapVars>>

\* the caller has the result or the error
ClientReturn ==
  /\ client.call.pc \in {"returned", "threw"}
  /\ client' = [client EXCEPT !.call = NoOperation]
  /\ UNCHANGED requests
  /\ UNCHANGED <<curateVars, chatVars, streamVars, turnVars, heapVars>>

ClientNext ==
  \/ resetChat
  \/ sendMessageToThinkAI
  \/ sendMessageStreamToThinkAI
  \/ StreamSucceeds
  \/ StreamFails
  \/ \E response \in Responses : AttemptResolves(response)
  \/ \E cause \in Causes : AttemptRejects(cause)
  \/ ClientReturn

\* --------------------------------------------------------- specifications
CurateInit ==
  CurateStart /\ ChatParked /\ StreamParked /\ TurnParked /\ HeapParked
  /\ ClientParked

SpecCurate == CurateInit /\ [][CurateNext]_vars

\* the loop of extractCuratedHistory is synchronous code: it keeps running
SpecCurateFair == SpecCurate /\ WF_vars(CurateNext)

ChatInit ==
  ChatStart /\ CurateParked /\ StreamParked /\ TurnParked /\ HeapParked
  /\ ClientParked

SpecChat == ChatInit /\ [][ChatNext]_vars

SpecStore == ChatInit /\ [][StoreNext]_vars

StreamInit ==
  StreamStart /\ CurateParked /\ ChatParked /\ TurnParked /\ HeapParked
  /\ ClientParked

SpecStream == StreamInit /\ [][StreamNext]_vars

TurnInit == TurnStart /\ CurateParked /\ HeapParked /\ ClientParked

SpecTurn == TurnInit /\ [][TurnNext]_vars

\* the turn under the proviso that every network call and every tool
\* invocation eventually returns or fails: no step of the turn, of the
\* planner, of the tool loop or of the response stream is postponed forever
SpecTurnFair == SpecTurn /\ WF_vars(TurnNext)

OwnerInit ==
  /\ OwnerStart
  /\ CurateParked /\ ChatParked /\ StreamParked /\ TurnParked
  /\ ClientParked

SpecOwner == OwnerInit /\ [][OwnerNext]_vars

ClientInit ==
  /\ ClientStart
  /\ CurateParked /\ ChatParked /\ StreamParked /\ TurnParked /\ HeapParked

SpecClient == ClientInit /\ [][ClientNext]_vars

\* =================================================================== claims
\* strict alternation user, model, user, ... starting with user (or empty)
AlternatesFromUser(s) ==
  \A k \in 1..Len(s) : s[k].role = (IF k % 2 = 1 THEN "user" ELSE "model")

\* at least one part and no empty text part
WellFormed(content) ==
  /\ Len(content.parts) >= 1
  /\ \A k \in 1..Len(content.parts) : content.parts[k] # EmptyText

\* C3 (as claimed): for every history, the curated projection is empty or
\* strictly alternates user, model, ... starting with user.
C3_CuratedAlternates ==
  pass = 2 => AlternatesFromUser(firstResult)

\* C3 (amended): for every history that itself strictly alternates starting
\* with user, the curated projection is empty or strictly alternates
\* starting with user.
C3_AlternationPreserved ==
  (pass = 2 /\ AlternatesFromUser(input)) => AlternatesFromUser(firstResult)

\* an alternating history with an invalid model turn, curated to a shorter
\* non-empty history
C3_Witness ==
  /\ pass = 2
  /\ AlternatesFromUser(input)
  /\ \E k \in 1..Len(input) :
        input[k].role = "model" /\ ~isValidContent(input[k])
  /\ Len(firstResult) >= 2
  /\ Len(firstResult) < Len(input)

\* C4: curation is idempotent, curate(curate(h)) = curate(h).
C4_CurateIdempotent ==
  cpc = "done" => curatedHistory = firstResult

\* both passes returned on a history from which the first pass removed a
\* user turn together with an invalid model run
C4_Witness ==
  /\ cpc = "done"
  /\ firstResult # <<>>
  /\ Len(firstResult) + 2 <= Len(input)
  /\ \E k \in 1..Len(input) :
        input[k].role = "model" /\ ~isValidContent(input[k])

\* C5 (as claimed): every turn of the curated projection, whatever its role,
\* has at least one part and no empty text part.
C5_CuratedTurnsWellFormed ==
  pass = 2 => \A k \in 1..Len(firstResult) : WellFormed(firstResult[k])

\* C5 (amended): every model turn of the curated projection has at least one
\* part and no empty text part; user turns pass through unvalidated.
C5_CuratedModelTurnsWellFormed ==
  pass = 2 =>
    \A k \in 1..Len(firstResult) :
      firstResult[k].role = "model" => WellFormed(firstResult[k])

\* a curated projection that kept a model turn while the history held a
\* model turn with an empty text part
C5_Witness ==
  /\ pass = 2
  /\ \E k \in 1..Len(firstResult) : firstResult[k].role = "model"
  /\ \E k \in 1..Len(input) :
        input[k].role = "model" /\ ~WellFormed(input[k])

\* C1: turns of one conversation are strictly serialized, so the history
\* never holds the user turns of two unfinished turns at the same time.
C1_SingleFlight ==
  Cardinality(Unfinished) <= 1

\* C2: when the transport call of sendMessage rejects, the history after the
\* failed call equals the history before the call appended its user turn.
C2_RollbackRestores ==
  [][\A c \in Calls : TransportRejects(c) => history' = calls[c].before]_vars

\* C6: setHistory rejects a history with a role other than user or model
\* before any mutation: the stored history is what it was before the call.
C6_RejectBeforeMutation ==
  [][\A h \in SetArgs :
        (setHistory(h) /\ ~validateHistory(h))
          => (thrown' = "role" /\ history' = history)]_vars

\* a setHistory was rejected while the store held a non-empty history
C6_Witness ==
  /\ thrown = "role"
  /\ Len(history) >= 2

\* C7: if the streamed transport fails before any fragment was produced and
\* the non-streaming request then succeeds, the stream yields exactly one
\* fragment, the full non-streaming response text, and then ends.
C7_FallbackSingleFragment ==
  (fb.state = "resolved" /\ fb.at = 0)
    => /\ fragments = <<fb.text>>
       /\ gpc \in {"yielded", "end"}
       /\ after = "end"

\* the first read of an opened stream failed, the fallback answered and the
\* stream ended after its single fragment
C7_Witness ==
  /\ gpc = "end"
  /\ fb.state = "resolved"
  /\ fb.at = 0
  /\ Len(reads) > 0
  /\ fragments = << <<"R">> >>

\* C8: if the cancellation signal is already set when a turn starts,
\* sendMessageStream yields zero fragments and the history after the turn is
\* identical to the history before it.
C8_PreCancelledTurnHasNoEffect ==
  (turn.pc = "returned" /\ turn.abortedAtStart)
    => (events = <<>> /\ history = turn.hist0)

\* C9: on the tool-execution path, when cancellation is observed during the
\* turn (after a tool has been invoked), the synthesized reply that was
\* completed is still committed to the history as the model turn of the turn.
C9_ToolPathCommitsDespiteCancel ==
  (turn.pc = "returned" /\ turn.path = "tools" /\ turn.observed
     /\ turn.invoked >= 1)
    => history = turn.hist0
                   \o << Content("user", <<TextPart(turn.message)>>),
                         Content("model", <<TextPart(turn.response)>>) >>

\* C10: on the conversational path, once cancellation is observed no further
\* fragment is relayed and no model turn is committed for that turn.
C10_NoRelayNoCommitAfterCancel ==
  [][(turn'.path = "stream" /\ turn'.observed)
       => (events' = events /\ history' = history)]_vars

\* a streamed turn that relayed a fragment, then observed the cancellation
\* and returned with the user turn only
C10_Witness ==
  /\ turn.pc = "returned"
  /\ turn.path = "stream"
  /\ turn.observed
  /\ Len(events) >= 1
  /\ ~IsBlank(turn.response)
  /\ history = Append(turn.hist0, Content("user", <<TextPart(turn.message)>>))

\* ------------------------------------------------ executeLocalTools (C11)
\* the per-call sections of an aggregate report: the pieces between blank
\* lines; the empty report has none
RECURSIVE Sections(_)
Sections(report) ==
  IF report = <<>> THEN <<>>
  ELSE IF \E k \in 1..Len(report) : report[k] = "\n\n"
  THEN LET k == CHOOSE j \in 1..Len(report) :
                  /\ report[j] = "\n\n"
                  /\ \A m \in 1..(j - 1) : report[m] # "\n\n"
       IN  <<SubSeq(report, 1, k - 1)>>
             \o (IF k = Len(report) THEN << <<>> >>
                 ELSE Sections(SubSeq(report, k + 1, Len(report))))
  ELSE <<report>>

\* the report has one section per plan entry, the i-th one being a line
\* executeLocalTools writes for the i-th entry
OneSectionPerCall(toolCalls, report) ==
  /\ Len(Sections(report)) = Len(toolCalls)
  /\ \A n \in 1..Len(toolCalls) :
        \E outcome \in OutcomesOf(toolCalls[n]) :
           Sections(report)[n] = Report(toolCalls[n], outcome)

\* executeLocalTools has returned in this turn
ToolsReturned == turn.path = "tools" /\ turn.pc \in {"commit", "returned"}

\* C11 as stated: for every plan and every state of the registry and the
\* scheduler, the aggregate report has exactly one section per plan entry,
\* in plan order.
C11_OneSectionPerCall ==
  ToolsReturned => OneSectionPerCall(turn.toolCalls, turn.toolResults)

\* C11 amended: with a tool scheduler the aggregate report has exactly one
\* section per plan entry, in plan order, the sections separated by blank
\* lines; without a tool scheduler the report is the single fixed line
\* "Tool scheduler not initialized. Cannot execute local tools." whatever
\* the plan.
C11_SectionsWhenSchedulerPresent ==
  ToolsReturned =>
    IF turn.hasScheduler
    THEN OneSectionPerCall(turn.toolCalls, turn.toolResults)
    ELSE turn.toolResults = NoScheduler

\* a two-entry plan reported in two sections, the first one an error line
C11_Witness ==
  /\ ToolsReturned
  /\ turn.hasScheduler
  /\ Len(turn.toolCalls) = 2
  /\ Len(Sections(turn.toolResults)) = 2
  /\ Sections(turn.toolResults)[1] = Report(turn.toolCalls[1], "notFound")
  /\ Sections(turn.toolResults)[2] = Report(turn.toolCalls[2], "output")

\* ------------------------------------------------ executeLocalTools (C12)
\* the n-th line of the report is an error line for the n-th plan entry
FailedEntry(n) ==
  /\ n \in 1..Len(turn.results)
  /\ \E outcome \in FailingOutcomes \cap OutcomesOf(turn.toolCalls[n]) :
        turn.results[n] = Report(turn.toolCalls[n], outcome)

\* C12: a failing plan entry is captured as exactly one error line and does
\* not abort the plan or the turn: the entries processed so far have one
\* line each, once executeLocalTools has returned every entry of the plan
\* has been processed, nothing was thrown and no Error event was yielded.
C12_FailureIsInlineAndPlanGoesOn ==
  (turn.path = "tools" /\ turn.hasScheduler) =>
    /\ Len(turn.results) = turn.k - 1
    /\ \A n \in 1..Len(turn.results) :
          FailedEntry(n) =>
            /\ ToolsReturned => Len(turn.results) = Len(turn.toolCalls)
            /\ thrown = "none"
            /\ \A e \in 1..Len(events) : events[e].type # "error"

\* the first entry failed, the second one was still executed and the turn
\* was committed
C12_Witness ==
  /\ turn.path = "tools"
  /\ turn.pc = "returned"
  /\ Len(turn.toolCalls) = 2
  /\ FailedEntry(1)
  /\ turn.results[2] = Report(turn.toolCalls[2], "output")
  /\ turn.invoked >= 1
  /\ history[Len(history)].role = "model"

\* -------------------------------------------------- parseUserIntent (C13)
\* the turn went on with the plan of the heuristic stage
HeuristicPlanUsed ==
  LET plan == fallbackPatternMatching(turn.message)
  IN  /\ turn.planner = "heuristic"
      /\ turn.path = "tools" =>
            plan.needsTools /\ turn.toolCalls = plan.toolCalls
      /\ turn.path = "stream" => ~plan.needsTools

NoErrorEvent == \A e \in 1..Len(events) : events[e].type # "error"

\* C13: when the remote planning stage fails (request rejected, reply not
\* decodable) the heuristic stage is run, its plan is the one the turn goes
\* on with and no Error event is yielded; the heuristic stage is run only
\* when the remote stage has failed.
C13_PlanningFailureFallsThrough ==
  turn.impl = "agentic" =>
    /\ turn.remoteFailed => HeuristicPlanUsed /\ NoErrorEvent
    /\ turn.planner = "heuristic" => turn.remoteFailed

\* the remote stage failed and the turn executed and committed the two-call
\* plan of the heuristic stage
C13_Witness ==
  /\ turn.remoteFailed
  /\ turn.pc = "returned"
  /\ turn.path = "tools"
  /\ turn.toolCalls = fallbackPatternMatching(GolangRequest).toolCalls
  /\ Len(turn.toolCalls) = 2
  /\ history[Len(history)].role = "model"

\* ------------------------------------------ fallbackPatternMatching (C14)
\* the language of a file name, "none" for a token that is no file name
LanguageOfFile(token) ==
  CASE token = "server.go" -> "go"
    [] token = "server.py" -> "python"
    [] token = "server.js" -> "node"
    [] OTHER -> "none"

\* the language of the most recent file creation the history acknowledges
RECURSIVE LastCreatedLanguage(_)
LastCreatedLanguage(h) ==
  IF Len(h) = 0 THEN "none"
  ELSE LET last == h[Len(h)]
           text == IF Len(last.parts) = 0 THEN <<>> ELSE last.parts[1].text
           created == last.role = "model" /\ Len(text) >= 2
                        /\ text[2] \in {"Created '", "Created file '"}
           files == { k \in 1..Len(text) : LanguageOfFile(text[k]) # "none" }
       IN  IF created /\ files # {}
           THEN LanguageOfFile(text[CHOOSE k \in files : TRUE])
           ELSE LastCreatedLanguage(SubSeq(h, 1, Len(h) - 1))

\* the run command of a language, the Node one when there is none
RunCommandOf(lang) ==
  CASE lang = "go" -> "go run server.go"
    [] lang = "python" -> "python3 server.py"
    [] OTHER -> "node server.js"

\* the heuristic stage planned an execute-only utterance
ExecuteOnlyPlanned ==
  /\ turn.planner = "heuristic"
  /\ MatchesExecuteOnly(Trim(ToLowerCase(turn.message)))
  /\ turn.path = "tools"

\* C14 as stated: in the heuristic stage an execute-only utterance is
\* planned as the single run_shell_command of the language of the most
\* recent file creation in the history the turn started from, and as the
\* Node command only when that history has no file creation.
C14_RunItResolvesReferent ==
  ExecuteOnlyPlanned =>
    turn.toolCalls =
      <<FunctionCall("run_shell_command",
                     <<RunCommandOf(LastCreatedLanguage(turn.hist0))>>, "")>>

\* ------------------------------------------ fallbackPatternMatching (C15)
LanguageOfContent(content) ==
  CASE content = GoSkeleton -> "go"
    [] content = PythonSkeleton -> "python"
    [] content = NodeSkeleton -> "node"
    [] OTHER -> "none"

LanguageOfCommand(command) ==
  CASE command = <<"go run server.go">> -> "go"
    [] command = <<"python3 server.py">> -> "python"
    [] command = <<"node server.js">> -> "node"
    [] OTHER -> "none"

\* the utterance of the turn, lower-cased and trimmed
Utterance == Trim(ToLowerCase(turn.message))

HasWriteAndServer ==
  /\ Includes(Utterance, "write") \/ Includes(Utterance, "create")
  /\ Includes(Utterance, "server") \/ Includes(Utterance, "hello")

HasAndWithRun ==
  /\ Includes(Utterance, "and")
  /\ Includes(Utterance, "run") \/ Includes(Utterance, "execute")

InferredLanguage ==
  IF Includes(Utterance, "golang") \/ IncludesGoSpace(Utterance) THEN "go"
  ELSE IF Includes(Utterance, "python") THEN "python"
  ELSE "node"

\* C15: in the heuristic stage an utterance with a write/create token and a
\* server/hello token is planned as exactly one write_file call when it has
\* no `and` together with a run/execute token and as write_file followed
\* by run_shell_command when it has; the file name, the skeleton and the
\* run command are those of the one language inferred from the utterance.
C15_HeuristicPlanShape ==
  (turn.planner = "heuristic" /\ HasWriteAndServer) =>
    /\ turn.path = "tools"
    /\ Len(turn.toolCalls) = (IF HasAndWithRun THEN 2 ELSE 1)
    /\ turn.toolCalls[1].name = "write_file"
    /\ LanguageOfFile(turn.toolCalls[1].arg[Len(turn.toolCalls[1].arg)])
         = InferredLanguage
    /\ LanguageOfContent(turn.toolCalls[1].content) = InferredLanguage
    /\ HasAndWithRun =>
         /\ turn.toolCalls[2].name = "run_shell_command"
         /\ LanguageOfCommand(turn.toolCalls[2].arg) = InferredLanguage

\* "write a python server and run it" planned by the heuristic stage as
\* write_file(server.py) then run_shell_command(python3 server.py)
C15_Witness ==
  /\ turn.planner = "heuristic"
  /\ turn.message = <<"write", "a", "python", "server", "and", "run", "it">>
  /\ Len(turn.toolCalls) = 2
  /\ turn.toolCalls[1].arg = <<WorkingDir, "/", "server.py">>
  /\ turn.toolCalls[2].arg = <<"python3 server.py">>

\* ------------------------------------------------- sendMessageStream (C16)
StartsWith(text, prefix) ==
  Len(text) >= Len(prefix) /\ SubSeq(text, 1, Len(prefix)) = prefix

EndsWith(text, suffix) ==
  /\ Len(text) >= Len(suffix)
  /\ SubSeq(text, Len(text) - Len(suffix) + 1, Len(text)) = suffix

\* the plan [write_file(server.go), run_shell_command("go run server.go")]
IsGolangPlan(toolCalls) ==
  /\ Len(toolCalls) = 2
  /\ toolCalls[1].name = "write_file"
  /\ toolCalls[1].arg[Len(toolCalls[1].arg)] = "server.go"
  /\ toolCalls[2] =
       FunctionCall("run_shell_command", <<"go run server.go">>, "")

\* the turn on GolangRequest has executed that plan and yielded its reply
GolangScenario ==
  /\ turn.message = GolangRequest
  /\ ToolsReturned
  /\ IsGolangPlan(turn.toolCalls)

\* the synthesized reply as emitted, and as committed if it has been
EmittedReply == events[Len(events)].value

Committed == turn.pc = "returned" /\ Len(history) = Len(turn.hist0) + 2

CommittedReply == history[Len(history)].parts[1].text

\* C16 as stated: the reply emitted and committed starts with
\* "Created 'server.go' and executed 'go run server.go'" and is followed by
\* the raw aggregate report.
C16_ReplyStartsWithCreated ==
  GolangScenario =>
    LET prefix == <<"Created '", "server.go", "' and executed '",
                    "go run server.go", "'">>
    IN  /\ StartsWith(EmittedReply, prefix)
        /\ EndsWith(EmittedReply, turn.toolResults)
        /\ Committed => CommittedReply = EmittedReply

\* C16 amended: the reply emitted, which is also the text of the model turn
\* when one is committed, is the check mark and a space, then "Created '",
\* the file_path argument of the plan's write_file call as the planner gave
\* it, "' and executed 'go run server.go'", a blank line and the raw
\* aggregate report.
C16_ReplyIsAcknowledgmentThenReport ==
  GolangScenario =>
    /\ EmittedReply = <<CheckMark, "Created '">> \o turn.toolCalls[1].arg
                        \o <<"' and executed '", "go run server.go", "'",
                             "\n\n">>
                        \o turn.toolResults
    /\ Committed => CommittedReply = EmittedReply

\* the heuristic stage planned GolangRequest, both tools ran and the reply,
\* which quotes the path under the working directory, was committed
C16_Witness ==
  /\ GolangScenario
  /\ turn.planner = "heuristic"
  /\ turn.invoked = 2
  /\ Committed
  /\ StartsWith(CommittedReply,
                <<CheckMark, "Created '", WorkingDir, "/", "server.go">>)

\* ------------------------------------- sendMessage / sendMessageStream (C17)
\* C17 as stated, for ThinkAIChat.sendMessage: a call that completes grows
\* the history it started from by exactly its user turn followed by its
\* model turn and changes no earlier turn.
C17_SendGrowsByUserThenModel ==
  [][\A c \in Calls :
       SendCommit(c) =>
         history' = calls[c].before
                      \o << createUserContent(Message(c)),
                            Content("model", <<TextPart(calls[c].response)>>) >>
    ]_vars

\* the same for one sendMessageStream turn of the client that is alone in
\* its conversation: tool path, or conversational path with a non-blank reply
LoneTurnGrowsByUserThenModel ==
  ( /\ turn.pc = "returned"
    /\ ~aborted
    /\ NoErrorEvent
    /\ turn.path = "tools" \/ (turn.path = "stream" /\ ~IsBlank(turn.response))
  ) => history = turn.hist0
                   \o << Content("user", <<TextPart(turn.message)>>),
                         Content("model", <<TextPart(turn.response)>>) >>

\* ----------------------------------------------------- stored roles (C20)
\* C20 as stated: after any sequence of store operations every turn of the
\* stored history has role user or model.
C20_StoredRolesUserOrModel ==
  \A k \in 1..Len(history) : history[k].role \in {"user", "model"}

\* ----------------------------------------------------- getHistory (C18)
\* the caller mutates something getHistory returned to it
MutatesReturned ==
  \/ \E o \in held.returnedObjs : CallerMutatesTurn(o)
  \/ \E a \in held.returnedArrays : CallerMutatesArray(a)

\* C18: getHistory, raw or curated, returns a deep copy: no mutation of a
\* returned array or turn changes the stored history, which is what a later
\* getHistory copies.
C18_ReturnedCopyIsDetached ==
  [][MutatesReturned => StoredValue' = StoredValue]_vars

\* a turn of a returned copy has been overwritten and the stored history,
\* out of which it was copied, does not have the overwritten text
C18_Witness ==
  /\ Len(arrays[stored]) > 0
  /\ \E o \in held.returnedObjs : objs[o] = Overwritten(objs[o])
  /\ \A k \in 1..Len(StoredValue) :
        StoredValue[k] # Overwritten(StoredValue[k])

\* ------------------------------------------ addHistory / setHistory (C19)
\* the caller mutates something it passed to the store earlier
MutatesPassed ==
  \/ \E o \in held.passedObjs : CallerMutatesTurn(o)
  \/ \E a \in held.passedArrays : CallerMutatesArray(a)

\* C19 as stated: mutating a turn or an array that was earlier passed to
\* the constructor, addHistory or setHistory never changes the stored
\* history.
C19_PassedReferencesAreDetached ==
  [][MutatesPassed => StoredValue' = StoredValue]_vars

\* ------------------------------------------- wire parser (C21, C22)
\* the payload is `[DONE]` or the empty string
IsSentinel(data) == data = <<"Z">> \/ data = <<>>

\* the payload is neither a sentinel nor decodable
IsUndecodable(data) == ~IsSentinel(data) /\ ~ParseOK(data)

\* the fragments the generator has yielded from the response body, the
\* fallback text left out
StreamFragments ==
  IF fb.state = "none" THEN fragments ELSE SubSeq(fragments, 1, fb.at)

\* the fragments carried by the well-formed payloads of s, in order, up to
\* and including the first record with done = true
RECURSIVE Carried(_)
Carried(s) ==
  IF Len(s) = 0 THEN <<>>
  ELSE LET data == Head(s)
       IN  IF IsSentinel(data) \/ ~ParseOK(data) THEN Carried(Tail(s))
           ELSE (IF Len(ParsedChunk(data)) > 0 THEN <<ParsedChunk(data)>>
                 ELSE <<>>)
                \o (IF ParsedDone(data) THEN <<>> ELSE Carried(Tail(s)))

\* the payloads processed before the first sentinel
RECURSIVE BeforeSentinel(_)
BeforeSentinel(s) ==
  IF Len(s) = 0 \/ IsSentinel(Head(s)) THEN <<>>
  ELSE <<Head(s)>> \o BeforeSentinel(Tail(s))

\* C21 as stated: a `data: ` line whose payload is `[DONE]` or empty ends
\* the stream: the generator yields no fragment carried by a line that
\* comes after it in the response body.
C21_SentinelEndsStream ==
  Len(StreamFragments) <= Len(Carried(BeforeSentinel(seen)))

\* the step processes a `data: ` line whose payload cannot be decoded
ProcessesUndecodable ==
  /\ gpc = "lines"
  /\ Len(lines) > 0
  /\ StartsWithData(Head(lines))
  /\ IsUndecodable(Payload(Head(lines)))
  /\ lines' = Tail(lines)

C23_OneSessionIdForAllRequests ==
  \A k \in 1..Len(requests) :
     /\ requests[k].session_id = client.sessionId
     /\ requests[k].session_id = requests[1].session_id

\* a streamed request, its fallback request, and a request sent after a
\* resetChat
C23_Witness ==
  /\ \E k \in 1..Len(requests) : requests[k].endpoint = "/chat/stream"
  /\ \E k \in 1..Len(requests) : requests[k].endpoint = "/chat"
  /\ \E j, k \in 1..Len(requests) :
        j < k /\ requests[j].chat < requests[k].chat

SomeSendFailed ==
  \E d \in Calls : calls[d].pc = "failed" /\ calls[d].kind = "send"

\* C25 as stated: when a sendMessage fails the gate is released and the
\* history is the one the call started from; every sendMessage that
\* completes after a failure leaves the history it started from plus its
\* own user turn and its own model turn.
C25_FailedTurnBlocksNothing ==
  [][\A c \in Calls :
       /\ TransportRejects(c) =>
             /\ sendPromise' = "resolved"
             /\ history' = calls[c].before
       /\ (SomeSendFailed /\ SendCommit(c)) =>
             history' = calls[c].before
                          \o << createUserContent(Message(c)),
                                Content("model",
                                        <<TextPart(calls[c].response)>>) >>
    ]_vars

\* ------------------------------------------ implicit file actions (C26)
\* the text holds a fenced code block
HasCodeBlock(text) == \E k \in 1..Len(text) : text[k] = "F"

\* an agentic turn took the conversational path and its stream ran to its
\* end without cancellation and without fallback
StreamedToEnd ==
  /\ turn.pc = "returned"
  /\ turn.impl = "agentic"
  /\ turn.path = "stream"
  /\ gpc = "end"
  /\ fb.state = "none"
  /\ ~aborted

\* C26 as stated: when the text accumulated from the stream holds a fenced
\* code block, a write_file plan has been run through the tool executor
\* and the reply of the turn is the streamed text followed by an
\* acknowledgment and the report.
C26_CodeBlocksAreWritten ==
  (StreamedToEnd /\ HasCodeBlock(Concat(fragments))) =>
    /\ turn.invoked >= 1
    /\ Len(turn.response) > Len(Concat(fragments))

\* ---------------------------------------- failed conversational turn (C27)
\* an agentic turn on the conversational path has returned after both the
\* streamed request and its non-streaming fallback failed
BothRequestsFailed ==
  /\ turn.pc = "returned"
  /\ turn.impl = "agentic"
  /\ turn.path = "stream"
  /\ gpc = "threw"

\* C27 as stated: such a turn has yielded exactly one event, the Error
\* event 'Failed to stream message', and has committed no model turn.
C27_StreamFailureYieldsOneError ==
  BothRequestsFailed =>
    /\ events = <<ErrorEvent>>
    /\ history = Append(turn.hist0, Content("user", <<TextPart(turn.message)>>))

\* ------------------------------------------------------ no-op turns (C28)
\* C28: a turn called with a turn budget of 0, or with an empty or
\* whitespace-only utterance, has returned at once: no event was yielded,
\* the history is the one before the call, no planner was asked, no
\* stream or fallback request exists and no tool was invoked.
C28_BlankOrSpentTurnIsNoOp ==
  (turn.pc # "idle" /\ (turn.turns = 0 \/ IsBlank(turn.message))) =>
    /\ turn.pc = "returned"
    /\ events = <<>>
    /\ history = turn.hist0
    /\ turn.planner = "none"
    /\ gpc = "none"
    /\ fb = NoFallback
    /\ turn.invoked = 0

\* a whitespace-only utterance, with turns left, on a conversation that
\* already has turns
C28_Witness ==
  /\ turn.pc = "returned"
  /\ turn.message = <<" ">>
  /\ turn.turns = MAX_TURNS
  /\ Len(history) > 0

\* ------------------------------------------------- runs of model turns (C29)
\* turns j and k of h lie in one run of consecutive model turns
SameRun(h, j, k) ==
  \A m \in (IF j < k THEN j ELSE k)..(IF j < k THEN k ELSE j) :
     h[m].role = "model"

\* the maximal run of model turns that holds turn k has an invalid turn
InInvalidRun(h, k) ==
  \E j \in 1..Len(h) : SameRun(h, j, k) /\ ~isValidContent(h[j])

\* what the claim keeps of h: a model turn unless its run has an invalid
\* turn, a user turn unless an invalid run starts right after it
KeptByClaim(h, k) ==
  IF h[k].role = "model" THEN ~InInvalidRun(h, k)
  ELSE ~(k < Len(h) /\ InInvalidRun(h, k + 1))

RECURSIVE KeptFrom(_, _)
KeptFrom(h, k) ==
  IF k > Len(h) THEN <<>>
  ELSE (IF KeptByClaim(h, k) THEN <<h[k]>> ELSE <<>>) \o KeptFrom(h, k + 1)

\* C29: the curated projection of a history is the history without the
\* maximal runs of model turns that hold an invalid turn and without the
\* user turn right before each such run; valid runs are kept whole and in
\* order, and every other user turn is kept.
C29_RunsKeptOrDroppedWhole ==
  pass = 2 => firstResult = KeptFrom(input, 1)

\* a run of a valid and an invalid model turn after two user turns: the
\* run and the second user turn are gone, the first user turn is kept
C29_Witness ==
  /\ pass = 2
  /\ Len(input) = 4
  /\ input[1].role = "user" /\ input[2].role = "user"
  /\ input[3].role = "model" /\ isValidContent(input[3])
  /\ input[4].role = "model" /\ ~isValidContent(input[4])
  /\ firstResult = <<input[1]>>

\* -------------------------------------- cancellation between tools (C30)
\* C30 as stated: the signal is checked before each tool invocation, so
\* no step taken while the signal is set invokes a tool of the plan.
C30_NoToolInvokedAfterCancel ==
  [][aborted => turn'.invoked = turn.invoked]_vars

\* ------------------------------------------- sequential tool calls (C31)
\* C31: at most one tool invocation of a plan is in flight; while call k is
\* in flight every earlier call of the plan has been reported, and none
\* is in flight when the loop is at its head or has ended.
C31_OneInvocationInFlight ==
  /\ turn.inflight <= 1
  /\ turn.pc = "executing" =>
        /\ turn.inflight = 1
        /\ Len(turn.results) = turn.k - 1
  /\ turn.pc # "executing" => turn.inflight = 0

\* the second call of a plan is in flight after the first has thrown
C31_Witness ==
  /\ turn.pc = "executing"
  /\ turn.k = 2
  /\ turn.invoked = 1
  /\ StartsWith(turn.results[1], <<"Error executing tool '">>)

\* ------------------------------------------ committed streamed text (C32)
\* the texts of the Content events the turn has yielded, concatenated
RelayedText ==
  Concat([k \in 1..Len(events) |->
            IF events[k].type = "content" THEN events[k].value ELSE <<>>])

\* C32 as stated, for the conversational path of sendMessageStream: the
\* text of the model turn a streamed turn commits is the concatenation, in
\* order, of the fragments relayed to the caller during the turn.
C32_CommittedIsRelayedText ==
  (Committed /\ turn.path = "stream") => CommittedReply = RelayedText

\* ------------------------------------------------ failed stream (C33)
\* C33 as stated: when the stream of a ThinkAIChat.sendMessageStream call
\* fails while it is consumed, the failure changes nothing in the history,
\* and the user turn of the call is in it: the turn stays and no model
\* turn is added.
C33_FailedStreamKeepsUserTurn ==
  [][\A c \in Calls :
       StreamError(c) =>
         /\ history' = history
         /\ \E k \in 1..Len(history') :
               history'[k] = createUserContent(Message(c))
    ]_vars

\* --------------------------------------------- rollback by identity (C37)
\* h without the user turn of call c
WithoutTurnOf(h, c) ==
  SelectSeq(h, LAMBDA t : t # createUserContent(Message(c)))

\* C37 as stated: under every interleaving, the rollback of a failed
\* sendMessage removes the user turn the failed call appended and nothing
\* else.
C37_RollbackRemovesOwnTurn ==
  [][\A c \in Calls :
       TransportRejects(c) => history' = WithoutTurnOf(history, c)
    ]_vars

\* ------------------------------------------- fallback after fragments (C36)
\* C36 as stated: the non-streaming fallback is entered only while no
\* fragment has been yielded.
C36_FallbackOnlyBeforeFirstFragment ==
  fb.state # "none" => fb.at = 0

\* ------------------------------------------------- read boundaries (C38)
\* the payloads of the `data: ` lines among ls
DataPayloads(ls) ==
  [k \in 1..Len(SelectSeq(ls, StartsWithData)) |->
     Payload(SelectSeq(ls, StartsWithData)[k])]

\* C38 as stated: a stream that ended without failure has yielded the
\* fragments carried by the lines of its body, whatever the cut of the
\* body into reads, i.e. the fragments of the body delivered in one read.
C38_FragmentsIndependentOfReads ==
  (gpc = "end" /\ fb.state = "none") =>
    fragments = Carried(DataPayloads(SplitLines(body)))

\* ------------------------------------------- curation terminates (C35)
\* C35 as stated: on every history the store can hold, the running
\* extractCuratedHistory call returns.
C35_CurationReturns ==
  <>(pass = 2)

\* ---- C34 ----
\* the call went past the early returns: the user turn was appended
UserTurnAppended == Len(history) > Len(turn.hist0)

ModelTurnCommitted == Len(history) = Len(turn.hist0) + 2

ErrorReported == ~NoErrorEvent

\* the streaming path ends without a commit by design when cancellation was
\* observed or when the reply is blank
StreamingEndsUncommitted ==
  turn.path = "stream" /\ (aborted \/ IsBlank(turn.response))

\* every call eventually returns a Turn: no step leaves the generator
\* without reaching its return statement
TurnEventuallyReturns == <>(turn.pc = "returned")

\* C34: under the proviso that network calls and tool invocations return or
\* fail, every call of sendMessageStream eventually returns a Turn, and a
\* call that appended the user turn has by then committed a model turn or
\* yielded an Error event (the streaming path's cancelled or blank reply
\* apart, which is never committed).
C34_ReturnsCommittedOrReported ==
  <>(/\ turn.pc = "returned"
     /\ (UserTurnAppended /\ ~StreamingEndsUncommitted)
           => (ModelTurnCommitted \/ ErrorReported))
====
